---- MODULE Spec2Model ----
(***************************************************************************)
(* State-machine model of the doorbell gateway: the operation registry     *)
(* (AbortManager), the file-playback handler (HandlePlayFile), the session *)
(* manager over the device's channel protocol, the audio stream writer's   *)
(* send loop, and the WebRTC handler's session set-up and cleanup.         *)
(*                                                                         *)
(* Spec     : registry, concurrent file playbacks, a WebRTC operation's    *)
(*            precedence abort, the bulk abort, and the device channels.   *)
(* SpecPlay : one file playback together with its writer's send loop.      *)
(* SpecAbort: one file playback, two WebRTC operations, repeated bulk      *)
(*            aborts.                                                      *)
(* SpecRTC  : WebRTCHandler (HandleOffer, OnTrack, cleanup, Close).        *)
(* SpecReader: AudioStreamReader (pump, Read, concurrent Close).            *)
(* SpecWriter: AudioStreamWriter with chunk contents and transmission      *)
(*            times (send loop, Write, Close).                             *)
(* SpecWriterFair: SpecWriter with the handshake select and the Write       *)
(*            select scheduled.                                            *)
(* SpecSession: HikvisionSessionManager over the device client and its     *)
(*            retrying round tripper.                                      *)
(* SpecCancel: one file playback of a payload longer than the writer's     *)
(*            queue, pre-empted by a WebRTC operation.                     *)
(* SpecTasks: one WebRTC session with its two forwarding tasks.            *)
(* SpecReaderFair: SpecReader with the pump's selects and Close scheduled.  *)
(* SpecFrames: a reader drained by the device-to-client task in frames.    *)
(* SpecConn : the writer with the request of its handshake.                *)
(***************************************************************************)
EXTENDS Integers, Sequences, FiniteSets, TLC

(***************************************************************************)
(* Bounds of the model.                                                    *)
(***************************************************************************)
\* number of two-way audio channels the device lists
NumChannels == 2
\* number of chunks of an uploaded payload (len(audioData) / chunkSize, rounded up)
NumChunks == 1
\* number of chunks of a payload that does not fit the writer's queue
LongChunks == 2
\* number of bytes the device delivers on a reader's connection
MaxBytes == 5
\* largest number of bytes one read of the device connection returns (the
\* source reads into a buffer of 8192)
MaxReadLen == 2
\* largest buffer a caller passes to AudioStreamReader.Read
MaxBuf == 2
\* capacity of the reader's dataChan as modelled (the source allocates 128)
RQueueCap == 2
\* number of Write calls made on the detailed writer
MaxWrites == 3
\* audio.SampleSize as modelled: the bytes of one frame (the source has 160)
FrameSize == 2
\* largest chunk a caller passes to AudioStreamWriter.Write, in bytes
MaxChunk == 2
\* capacity of the writer's dataChan as modelled (the source allocates 100)
SQueueCap == 2
\* last instant of the clock, in units of 1/8000 s (the playback time of a byte)
MaxClock == 4
\* capacity of the writer's dataChan as modelled (the source allocates 100)
QueueCap == 1

(***************************************************************************)
(* Processes.  Every request is a process of its own; an operation is      *)
(* identified by the request that registered it.                           *)
(***************************************************************************)
\* concurrent POST /api/audio/play-file requests
PlayFiles == {"p1", "p2"}
\* WebRTC operations as the registry sees them
Offers == {"w1", "w2"}
\* concurrent POST /api/abort requests
Aborters == {"a1"}
Ops == PlayFiles \cup Offers
Callers == Offers \cup Aborters
Procs == PlayFiles \cup Offers \cup Aborters
\* concurrent POST /api/webrtc/offer requests handled by WebRTCHandler.HandleOffer
RTCOffers == {"o1", "o2"}
\* the OnTrack callback of the first offer's peer connection and the RTP task
\* it starts
TrackOf == [o \in {"o1"} |-> "t1"]
TrackTasks == {TrackOf[o] : o \in DOMAIN TrackOf}
\* the OnConnectionStateChange callback of the first offer's peer connection
StateOf == [o \in {"o1"} |-> "s1"]
StateCallbacks == {StateOf[o] : o \in DOMAIN StateOf}
\* callers of WebRTCHandler.Close (HandleAbort -> CloseAllSessions)
Closers == {"x1"}
\* everything that invokes WebRTCHandler.cleanup
Invokers == TrackTasks \cup StateCallbacks \cup Closers
\* the device-to-client task that OnTrack starts with the session
ReaderOf == [o \in {"o1"} |-> "d1"]
ReaderTasks == {ReaderOf[o] : o \in DOMAIN ReaderOf}
RTCProcs == RTCOffers \cup Invokers \cup ReaderTasks
\* concurrent callers of AudioStreamReader.Close
RClosers == {"c1", "c2"}
\* the caller of AudioStreamReader.Read
RConsumers == {"r1"}
\* the caller of AudioStreamWriter.Write
SWriters == {"u1"}
\* the caller of AudioStreamWriter.Close
SClosers == {"k1"}
\* concurrent callers of the session manager
SmCallers == {"m1", "m2"}
\* what one attempt of a device request can yield: a status (200 with a body
\* that can be read and parsed, 200 with one that cannot, 401 with an empty or
\* a non-empty WWW-Authenticate header, any other status) or a transport error
Outcomes == {"200", "200bad", "401empty", "401chal", "500", "neterr"}
\* the session ids the device hands out
SessionIds == {"sidA", "sidB"}
\* the device issues a fresh session id with every open it accepts: the id it
\* answers to each caller's open request
IssuedId == [m \in SmCallers |-> IF m = "m1" THEN "sidA" ELSE "sidB"]
Chans == 1..NumChannels
Free == "free"
None == "none"

VARIABLES
  \* ---- AbortManager (abort.go) ----
  mu,          \* am.mu: Free, or the caller holding it across its critical section
  activeOps,   \* am.activeOps: sequence of operations, in registration order
  cancelled,   \* per operation: its context has been cancelled (op.Cancel invoked)
  wg,          \* per operation: counter of its Cleanup WaitGroup
  doneCount,   \* per operation: number of Cleanup.Done() calls made so far
  waitGroups,  \* per abort caller: the wait groups it still has to wait on
  sweep,       \* per AbortAll caller: enabled channels it still has to release
  inflight,    \* per abort caller (history, read by no action): for
               \* AbortPlayFileOperations the play-file operations whose completion
               \* had not fired when it called, kept until it returns; for AbortAll
               \* the operations tracked when it took its snapshot, kept until its
               \* waits are over
  \* ---- requests ----
  pc,          \* per process: position in its handler
  result,      \* per process: what the handler reported to its caller
  \* ---- device (ISAPI two-way audio channels) ----
  channels,    \* per channel: the device's enabled flag (TRUE: in use)
  openedBy,    \* per channel: the gateway request whose open is not yet closed
  \* ---- HandlePlayFile locals ----
  chosen,      \* AcquireChannel's channelID (0: none)
  session,     \* the AudioSession's ChannelID held by the handler (0: nil)
  sent,        \* chunks accepted by writer.Write so far
  \* ---- AudioStreamWriter of a play-file request (stream_writer.go) ----
  wstate,      \* sendLoop: "none", "handshake", "loop", "exited"
  wstop,       \* stopChan is closed
  wq,          \* chunks queued in dataChan
  werr,        \* errChan holds an error
  wconn,       \* the device connection of the send loop is open
  wtx,         \* chunks written to the device connection
  \* ---- WebRTCHandler (webrtc.go) ----
  hmu,             \* h.mu: Free, or the request holding it
  peerConnection,  \* h.peerConnection: None (nil), or the offer that created it
  audioWriter,     \* h.audioWriter: 0 (nil), or the channel of its session
  audioReader,     \* h.audioReader: 0 (nil), or the channel of its session
  activeSession,   \* h.activeSession: 0 (nil), or its ChannelID
  pcState,         \* per offer: its peer connection is "none", "open" or "closed"
  pcCloses,        \* per offer: number of Close() calls made on its peer connection
  chanCloses,      \* per channel: CloseAudioChannel calls since it was last opened
  rpc,             \* per WebRTC request, task or callback: its position ("panicked":
                   \* it called through a field another invocation had cleared)
  rresult,         \* per offer: what HandleOffer reported
  rchosen,         \* per OnTrack callback: its channelID local (0: "")
  clog,            \* the effects performed by the cleanup that Close runs, in order
  \* ---- AudioStreamReader ----
  rdState,     \* streamLoop: "new" (not started), "connect", "select", "read",
               \* "send", "exited"
  rdData,      \* streamLoop's data: the chunk it is sending to dataChan
  rdAfter,     \* streamLoop's err of the last device read: "none", "eof", "err"
  rdNext,      \* number of bytes read from the device connection so far
  rdQueued,    \* number of bytes sent to dataChan so far (history)
  rdQ,         \* dataChan: the queued chunks
  rdErr,       \* errChan holds an error
  rdStop,      \* stopChan is closed
  rdBuf,       \* a.buffer: the remainder of a chunk larger than the caller's buffer
  rdWg,        \* a.wg: counter
  rdOnce,      \* a.closeOnce: "new", "running", "done"
  rdOut,       \* the bytes returned by the Read calls so far, in order (history)
  rdP,         \* len(p) of the Read call in progress
  rdRet,       \* what the last Read call returned: <<n, err>>
  rdpc,        \* per caller of Close or Read: its position
  \* ---- AudioStreamWriter, with chunk contents and time ----
  swState,     \* sendLoop: "new" (not started), "handshake", "loop", "sleep", "exited"
  swQ,         \* dataChan: the queued chunks
  swErr,       \* errChan holds an error
  swStop,      \* stopChan is closed
  swAccepted,  \* the chunks Write has put on dataChan, in order (history)
  swTx,        \* the chunks written to the connection, one per conn.Write (history)
  swClock,     \* the time, in units of 1/8000 s
  swWake,      \* the time at which the current time.Sleep is over
  swFirst,     \* the time of the first conn.Write (history)
  swLast,      \* the time of the last conn.Write (history)
  swP,         \* the chunk of the Write call in progress
  swLate,      \* the Write call in progress started after Close had returned
  swRet,       \* what the last Write call returned: <<n, err>>
  swCalls,     \* number of Write calls made
  swpc,        \* per caller of Write or Close: its position
  \* ---- the request of the writer's handshake (stream_writer.go, sendLoop) ----
  hsReq,       \* the goroutine running client.Do: "none", "running", "done"
  hsConn,      \* sendLoop's conn: "nil", "open", "idle" (kept by the transport
               \* after a response whose body was closed), "closed"
  hsBody,      \* the body of the 200 response: "none", "open", "closed"
  hsRespChan,  \* sendLoop's respChan holds the response
  hsErrChan,   \* sendLoop's local errChan holds an error
  \* ---- the device-to-client task of a WebRTC session (webrtc.go) ----
  ftBuf,       \* the bytes io.ReadFull has put into buffer so far
  ftOut,       \* the samples written to the track, in order (history)
  ftpc,        \* the task: "readfull", "select" (inside reader.Read), "done"
  \* ---- HikvisionSessionManager over the Client (session/hikvision.go, part_004) ----
  smpc,        \* per caller: "idle", or the request in flight ("list", "open",
               \* "close") or answered ("list_resp", "open_resp", "close_resp"),
               \* or "held" (AcquireChannel returned a session)
  smListing,   \* per caller: the channel listing its call received (enabled strings)
  smChosen,    \* per caller: AcquireChannel's channelID (0: "")
  smSess,      \* per caller: the session returned, <<ChannelID, SessionID>> (<<0, "">>: nil)
  smErr,       \* per caller: the error its last call returned ("none": nil)
  smOpens,     \* per caller: open requests sent during its AcquireChannel (history)
  smOpened,    \* per caller: channels the device opened during its AcquireChannel (history)
  rtN,         \* per caller: calls of transport.RoundTrip made for the request in flight
  rtFirst,     \* per caller: outcome of the first attempt of the request
  rtLast,      \* per caller: outcome of the latest attempt of the request
  rtBody,      \* per caller: body of the latest 200 response (a listing or a session id)
  rtResp,      \* per caller: what RoundTrip returned ("none": it has not returned)
  dvSid        \* per channel: the session id the device issued at its last open

regVars == <<mu, activeOps, cancelled, wg, doneCount, waitGroups, sweep, inflight>>
devVars == <<channels, openedBy>>
pfVars == <<chosen, session, sent>>
wrVars == <<wstate, wstop, wq, werr, wconn, wtx>>
rtcVars == <<hmu, peerConnection, audioWriter, audioReader, activeSession,
             pcState, pcCloses, chanCloses, rpc, rresult, rchosen, clog>>
rdVars == <<rdState, rdData, rdAfter, rdNext, rdQueued, rdQ, rdErr, rdStop, rdBuf,
            rdWg, rdOnce, rdOut, rdP, rdRet, rdpc>>
\* the Audio Stream Bridge on its own
swVars == <<swState, swQ, swErr, swStop, swAccepted, swTx, swClock, swWake, swFirst,
            swLast, swP, swLate, swRet, swCalls, swpc>>
hsVars == <<hsReq, hsConn, hsBody, hsRespChan, hsErrChan>>
ftVars == <<ftBuf, ftOut, ftpc>>
brVars == <<rdVars, swVars, hsVars, ftVars>>
smVars == <<smpc, smListing, smChosen, smSess, smErr, smOpens, smOpened,
            rtN, rtFirst, rtLast, rtBody, rtResp, dvSid>>
vars == <<regVars, pc, result, devVars, pfVars, wrVars, rtcVars, brVars, smVars>>

(***************************************************************************)
(* Operation types (abort.go, Operation.IsPlayFile / IsWebRTC).            *)
(***************************************************************************)
IsPlayFile(op) == op \in PlayFiles

IsWebRTC(op) == op \in Offers

(***************************************************************************)
(* AbortManager: pure parts of the registry operations.                    *)
(***************************************************************************)
\* Register: append at the end of the tracked collection
RegisterOp(ops, op) == Append(ops, op)

\* an Unregister that removes every tracked operation of the given one's type
UnregisterByType(ops, op) ==
  SelectSeq(ops, LAMBDA o : IsPlayFile(o) # IsPlayFile(op))

\* Unregister: remove the operation (by identity) if it is tracked
UnregisterOp(ops, op) == SelectSeq(ops, LAMBDA o : o # op)

HasActiveOperation == Len(activeOps) > 0

HasActiveWebRTC == \E i \in 1..Len(activeOps) : IsWebRTC(activeOps[i])

Tracked == {activeOps[i] : i \in 1..Len(activeOps)}

(***************************************************************************)
(* Device and session manager.                                             *)
(***************************************************************************)
\* AcquireChannel: the first channel of the listing whose enabled flag is false
FirstFree(chs) ==
  IF \E c \in Chans : ~chs[c]
    THEN CHOOSE c \in Chans : ~chs[c] /\ \A d \in Chans : ~chs[d] => c <= d
    ELSE 0

\* (mutation) only the enabled channels whose opener has not yet signalled
\* completion: channels no registered operation owns are skipped
RECURSIVE EnabledOwnedFrom(_, _)
EnabledOwnedFrom(chs, c) ==
  IF c > NumChannels THEN <<>>
  ELSE (IF chs[c] /\ openedBy[c] \in Ops /\ wg[openedBy[c]] > 0 THEN <<c>> ELSE <<>>)
         \o EnabledOwnedFrom(chs, c + 1)

\* (mutation) every channel of a listing, enabled or not
RECURSIVE AllChannelsFrom(_, _)
AllChannelsFrom(chs, c) ==
  IF c > NumChannels THEN <<>> ELSE <<c>> \o AllChannelsFrom(chs, c + 1)

\* the enabled channels of a listing, in listing order
RECURSIVE EnabledFrom(_, _)
EnabledFrom(chs, c) ==
  IF c > NumChannels THEN <<>>
  ELSE (IF chs[c] THEN <<c>> ELSE <<>>) \o EnabledFrom(chs, c + 1)

Init ==
  /\ mu = Free
  /\ activeOps = <<>>
  /\ cancelled = [o \in Ops |-> FALSE]
  /\ wg = [o \in Ops |-> 0]
  /\ doneCount = [o \in Ops |-> 0]
  /\ waitGroups = [c \in Callers |-> <<>>]
  /\ sweep = [a \in Aborters |-> <<>>]
  /\ inflight = [c \in Callers |-> {}]
  /\ pc = [p \in Procs |-> "idle"]
  /\ result = [p \in Procs |-> None]
  /\ channels = [c \in Chans |-> FALSE]
  /\ openedBy = [c \in Chans |-> None]
  /\ chosen = [p \in PlayFiles |-> 0]
  /\ session = [p \in PlayFiles |-> 0]
  /\ sent = [p \in PlayFiles |-> 0]
  /\ wstate = [p \in PlayFiles |-> "none"]
  /\ wstop = [p \in PlayFiles |-> FALSE]
  /\ wq = [p \in PlayFiles |-> 0]
  /\ werr = [p \in PlayFiles |-> FALSE]
  /\ wconn = [p \in PlayFiles |-> FALSE]
  /\ wtx = [p \in PlayFiles |-> 0]
  /\ hmu = Free
  /\ peerConnection = None
  /\ audioWriter = 0
  /\ audioReader = 0
  /\ activeSession = 0
  /\ pcState = [o \in RTCOffers |-> "none"]
  /\ pcCloses = [o \in RTCOffers |-> 0]
  /\ chanCloses = [c \in Chans |-> 0]
  /\ rpc = [k \in RTCProcs |-> "idle"]
  /\ rresult = [o \in RTCOffers |-> None]
  /\ rchosen = [t \in TrackTasks |-> 0]
  /\ clog = <<>>
  /\ rdState = "new"
  /\ rdData = <<>>
  /\ rdAfter = "none"
  /\ rdNext = 0
  /\ rdQueued = 0
  /\ rdQ = <<>>
  /\ rdErr = FALSE
  /\ rdStop = FALSE
  /\ rdBuf = <<>>
  /\ rdWg = 0
  /\ rdOnce = "new"
  /\ rdOut = <<>>
  /\ rdP = 0
  /\ rdRet = <<0, "none">>
  /\ rdpc = [c \in RClosers \cup RConsumers |-> "idle"]
  /\ swState = "new"
  /\ swQ = <<>>
  /\ swErr = FALSE
  /\ swStop = FALSE
  /\ swAccepted = <<>>
  /\ swTx = <<>>
  /\ swClock = 0
  /\ swWake = 0
  /\ swFirst = 0
  /\ swLast = 0
  /\ swP = <<>>
  /\ swLate = FALSE
  /\ swRet = <<0, "none">>
  /\ swCalls = 0
  /\ swpc = [u \in SWriters \cup SClosers |-> "idle"]
  /\ hsReq = "none"
  /\ hsConn = "nil"
  /\ hsBody = "none"
  /\ hsRespChan = FALSE
  /\ hsErrChan = FALSE
  /\ ftBuf = <<>>
  /\ ftOut = <<>>
  /\ ftpc = "readfull"
  /\ smpc = [m \in SmCallers |-> "idle"]
  /\ smListing = [m \in SmCallers |-> <<>>]
  /\ smChosen = [m \in SmCallers |-> 0]
  /\ smSess = [m \in SmCallers |-> <<0, "">>]
  /\ smErr = [m \in SmCallers |-> "none"]
  /\ smOpens = [m \in SmCallers |-> 0]
  /\ smOpened = [m \in SmCallers |-> {}]
  /\ rtN = [m \in SmCallers |-> 0]
  /\ rtFirst = [m \in SmCallers |-> "none"]
  /\ rtLast = [m \in SmCallers |-> "none"]
  /\ rtBody = [m \in SmCallers |-> <<>>]
  /\ rtResp = [m \in SmCallers |-> "none"]
  /\ dvSid = [c \in Chans |-> ""]

(***************************************************************************)
(* HandlePlayFile.                                                         *)
(***************************************************************************)
\* (mutation) the operation is registered before the admission check, and a
\* rejected request leaves it tracked
PFCheckAfterRegister(p) ==
  /\ pc[p] = "idle"
  /\ mu = Free
  /\ IF HasActiveOperation
       THEN /\ pc' = [pc EXCEPT ![p] = "rejected"]
            /\ result' = [result EXCEPT ![p] = "conflict"]
            /\ activeOps' = RegisterOp(activeOps, p)
       ELSE /\ pc' = [pc EXCEPT ![p] = "admitted"]
            /\ UNCHANGED <<result, activeOps>>
  /\ UNCHANGED <<mu, cancelled, wg, doneCount, waitGroups, sweep, inflight, devVars, pfVars, wrVars, rtcVars, brVars, smVars>>

\* if abortManager.HasActiveOperation() { 409; return }
PFCheck(p) ==
  /\ pc[p] = "idle"
  /\ mu = Free
  /\ IF HasActiveOperation
       THEN /\ pc' = [pc EXCEPT ![p] = "rejected"]
            /\ result' = [result EXCEPT ![p] = "conflict"]
       ELSE /\ pc' = [pc EXCEPT ![p] = "admitted"]
            /\ UNCHANGED result
  /\ UNCHANGED <<regVars, devVars, pfVars, wrVars, rtcVars, brVars, smVars>>

\* op := abortManager.Register(OperationTypePlayFile, cancel)
PFRegister(p) ==
  /\ pc[p] = "admitted"
  /\ mu = Free
  /\ activeOps' = RegisterOp(activeOps, p)
  /\ wg' = [wg EXCEPT ![p] = 1]
  /\ pc' = [pc EXCEPT ![p] = "parse"]
  /\ UNCHANGED <<mu, cancelled, doneCount, waitGroups, sweep, inflight, result, devVars, pfVars, wrVars, rtcVars, brVars, smVars>>

\* ParseMultipartForm / FormFile / io.ReadAll
PFParse(p) ==
  /\ pc[p] = "parse"
  /\ \E outcome \in {"ok", "badform", "nofile", "readfail"} :
       IF outcome = "ok"
         THEN /\ pc' = [pc EXCEPT ![p] = "acq_list"]
              /\ UNCHANGED result
         ELSE /\ pc' = [pc EXCEPT ![p] = "d_unreg"]
              /\ result' = [result EXCEPT ![p] =
                              IF outcome = "readfail" THEN "error" ELSE "badrequest"]
  /\ UNCHANGED <<regVars, devVars, pfVars, wrVars, rtcVars, brVars, smVars>>

\* AcquireChannel, first half: list the channels and select the first available one
PFAcquireList(p) ==
  /\ pc[p] = "acq_list"
  /\ \E ok \in BOOLEAN :
       IF ok /\ FirstFree(channels) # 0
         THEN /\ chosen' = [chosen EXCEPT ![p] = FirstFree(channels)]
              /\ pc' = [pc EXCEPT ![p] = "acq_open"]
              /\ UNCHANGED result
         ELSE /\ pc' = [pc EXCEPT ![p] = "d_unreg"]
              /\ result' = [result EXCEPT ![p] = "error"]
              /\ UNCHANGED chosen
  /\ UNCHANGED <<regVars, devVars, session, sent, wrVars, rtcVars, brVars, smVars>>

\* AcquireChannel, second half: open the selected channel; on success the
\* handler creates and starts the writer.  The device refuses to open a
\* channel that is already enabled.
PFAcquireOpen(p) ==
  /\ pc[p] = "acq_open"
  /\ \E ok \in BOOLEAN :
       IF ok /\ ~channels[chosen[p]]
         THEN /\ channels' = [channels EXCEPT ![chosen[p]] = TRUE]
              /\ openedBy' = [openedBy EXCEPT ![chosen[p]] = p]
              /\ session' = [session EXCEPT ![p] = chosen[p]]
              /\ wstate' = [wstate EXCEPT ![p] = "handshake"]
              /\ pc' = [pc EXCEPT ![p] = "send"]
              /\ UNCHANGED result
         ELSE /\ pc' = [pc EXCEPT ![p] = "d_unreg"]
              /\ result' = [result EXCEPT ![p] = "error"]
              /\ UNCHANGED <<devVars, session, wstate>>
  /\ UNCHANGED <<regVars, chosen, sent, wstop, wq, werr, wconn, wtx, rtcVars, brVars, smVars>>

\* the chunk loop: select { case <-ctx.Done(): 503; return; default: writer.Write(chunk) }
PFInterruptedInLoop(p) ==
  /\ pc[p] = "send"
  /\ cancelled[p]
  /\ pc' = [pc EXCEPT ![p] = "d_wclose"]
  /\ result' = [result EXCEPT ![p] = "interrupted"]
  /\ UNCHANGED <<regVars, devVars, pfVars, wrVars, rtcVars, brVars, smVars>>

\* writer.Write: case w.dataChan <- data
PFWriteChunk(p) ==
  /\ pc[p] = "send"
  /\ ~cancelled[p]
  /\ wq[p] < QueueCap
  /\ wq' = [wq EXCEPT ![p] = @ + 1]
  /\ sent' = [sent EXCEPT ![p] = @ + 1]
  /\ pc' = [pc EXCEPT ![p] = IF sent[p] + 1 = NumChunks THEN "wait" ELSE "send"]
  /\ UNCHANGED <<regVars, result, devVars, chosen, session, wstate, wstop, werr, wconn, wtx, rtcVars, brVars, smVars>>

\* writer.Write: case err := <-w.errChan
PFWriteError(p) ==
  /\ pc[p] = "send"
  /\ ~cancelled[p]
  /\ werr[p]
  /\ werr' = [werr EXCEPT ![p] = FALSE]
  /\ pc' = [pc EXCEPT ![p] = "d_wclose"]
  /\ result' = [result EXCEPT ![p] = "error"]
  /\ UNCHANGED <<regVars, devVars, pfVars, wstate, wstop, wq, wconn, wtx, rtcVars, brVars, smVars>>

\* select { case <-ctx.Done(): 503; case <-time.After(audioDuration): 200 }
PFWait(p) ==
  /\ pc[p] = "wait"
  /\ \/ /\ cancelled[p]
        /\ result' = [result EXCEPT ![p] = "interrupted"]
     \/ result' = [result EXCEPT ![p] = "ok"]
  /\ pc' = [pc EXCEPT ![p] = "d_wclose"]
  /\ UNCHANGED <<regVars, devVars, pfVars, wrVars, rtcVars, brVars, smVars>>

\* deferred: writer.Close() closes stopChan and returns
PFWriterClose(p) ==
  /\ pc[p] = "d_wclose"
  /\ wstop' = [wstop EXCEPT ![p] = TRUE]
  /\ pc' = [pc EXCEPT ![p] = "d_release"]
  /\ UNCHANGED <<regVars, result, devVars, pfVars, wstate, wq, werr, wconn, wtx, rtcVars, brVars, smVars>>

\* deferred: sessionManager.ReleaseChannel(context.Background(), session.ChannelID),
\* its error discarded
PFRelease(p) ==
  /\ pc[p] = "d_release"
  /\ \E ok \in BOOLEAN :
       IF ok
         THEN /\ channels' = [channels EXCEPT ![session[p]] = FALSE]
              /\ openedBy' = [openedBy EXCEPT ![session[p]] = None]
         ELSE UNCHANGED devVars
  /\ pc' = [pc EXCEPT ![p] = "d_unreg"]
  /\ UNCHANGED <<regVars, result, pfVars, wrVars, rtcVars, brVars, smVars>>

\* deferred: abortManager.Unregister(op)
PFUnregister(p) ==
  /\ pc[p] = "d_unreg"
  /\ mu = Free
  /\ activeOps' = UnregisterOp(activeOps, p)
  /\ pc' = [pc EXCEPT ![p] = "d_done"]
  /\ UNCHANGED <<mu, cancelled, wg, doneCount, waitGroups, sweep, inflight, result, devVars, pfVars, wrVars, rtcVars, brVars, smVars>>

\* (mutation) the completion signal is left to the abort that cancelled the
\* operation: Done() is skipped once the context is cancelled
PFDoneUnlessAborted(p) ==
  /\ pc[p] = "d_done"
  /\ IF cancelled[p]
       THEN UNCHANGED <<wg, doneCount>>
       ELSE /\ wg' = [wg EXCEPT ![p] = @ - 1]
            /\ doneCount' = [doneCount EXCEPT ![p] = @ + 1]
  /\ pc' = [pc EXCEPT ![p] = "d_cancel"]
  /\ UNCHANGED <<mu, activeOps, cancelled, waitGroups, sweep, inflight, result, devVars, pfVars, wrVars, rtcVars, brVars, smVars>>

\* deferred: op.Cleanup.Done()
PFDone(p) ==
  /\ pc[p] = "d_done"
  /\ wg' = [wg EXCEPT ![p] = @ - 1]
  /\ doneCount' = [doneCount EXCEPT ![p] = @ + 1]
  /\ pc' = [pc EXCEPT ![p] = "d_cancel"]
  /\ UNCHANGED <<mu, activeOps, cancelled, waitGroups, sweep, inflight, result, devVars, pfVars, wrVars, rtcVars, brVars, smVars>>

\* deferred: cancel()
PFCancel(p) ==
  /\ pc[p] = "d_cancel"
  /\ cancelled' = [cancelled EXCEPT ![p] = TRUE]
  /\ pc' = [pc EXCEPT ![p] = "done"]
  /\ UNCHANGED <<mu, activeOps, wg, doneCount, waitGroups, sweep, inflight, result, devVars, pfVars, wrVars, rtcVars, brVars, smVars>>

(***************************************************************************)
(* AudioStreamWriter.sendLoop of a play-file request.                      *)
(***************************************************************************)
\* the PUT handshake: response, error, or the 5 s timeout
WHandshake(p) ==
  /\ wstate[p] = "handshake"
  /\ \E outcome \in {"ok", "err", "timeout"} :
       IF outcome = "ok"
         THEN /\ wstate' = [wstate EXCEPT ![p] = "loop"]
              /\ wconn' = [wconn EXCEPT ![p] = TRUE]
              /\ UNCHANGED werr
         ELSE /\ wstate' = [wstate EXCEPT ![p] = "exited"]
              /\ werr' = [werr EXCEPT ![p] = TRUE]
              /\ UNCHANGED wconn
  /\ UNCHANGED <<regVars, pc, result, devVars, pfVars, wstop, wq, wtx, rtcVars, brVars, smVars>>

\* case <-w.stopChan: return (the deferred function closes the connection)
WLoopStop(p) ==
  /\ wstate[p] = "loop"
  /\ wstop[p]
  /\ wstate' = [wstate EXCEPT ![p] = "exited"]
  /\ wconn' = [wconn EXCEPT ![p] = FALSE]
  /\ UNCHANGED <<regVars, pc, result, devVars, pfVars, wstop, wq, werr, wtx, rtcVars, brVars, smVars>>

\* case data := <-w.dataChan: conn.Write(data), then the pacing sleep
WLoopSend(p) ==
  /\ wstate[p] = "loop"
  /\ wq[p] > 0
  /\ wq' = [wq EXCEPT ![p] = @ - 1]
  /\ \E ok \in BOOLEAN :
       IF ok
         THEN /\ wtx' = [wtx EXCEPT ![p] = @ + 1]
              /\ UNCHANGED <<wstate, werr, wconn>>
         ELSE /\ werr' = [werr EXCEPT ![p] = TRUE]
              /\ wstate' = [wstate EXCEPT ![p] = "exited"]
              /\ wconn' = [wconn EXCEPT ![p] = FALSE]
              /\ UNCHANGED wtx
  /\ UNCHANGED <<regVars, pc, result, devVars, pfVars, wstop, rtcVars, brVars, smVars>>

\* the handler's own steps, without the writer's error reaching it
PlayFileStep(p) ==
  \/ PFCheck(p) \/ PFRegister(p) \/ PFParse(p)
  \/ PFAcquireList(p) \/ PFAcquireOpen(p)
  \/ PFInterruptedInLoop(p) \/ PFWriteChunk(p) \/ PFWait(p)
  \/ PFWriterClose(p) \/ PFRelease(p) \/ PFUnregister(p) \/ PFDone(p) \/ PFCancel(p)

\* the send loop of the request's writer, and its error reaching the handler
WriterStep(p) ==
  \/ WHandshake(p) \/ WLoopStop(p) \/ WLoopSend(p) \/ PFWriteError(p)

(***************************************************************************)
(* AbortManager.AbortPlayFileOperations and AbortManager.AbortAll.         *)
(***************************************************************************)
\* (mutation) the unlock deferred to the end of the call: the lock is kept
\* across the waits
MuHeldAcrossWait(c) == c

\* am.mu.Unlock() after the snapshot is taken: the lock is free during the waits
MuAfterCollect(c) == Free

\* am.mu.Lock() at the head of AbortPlayFileOperations
AbortPlayFileLock(w) ==
  /\ pc[w] = "w_abort"
  /\ mu = Free
  /\ mu' = w
  /\ pc' = [pc EXCEPT ![w] = "apf_locked"]
  /\ inflight' = [inflight EXCEPT ![w] = {p \in PlayFiles : wg[p] > 0}]
  /\ UNCHANGED <<activeOps, cancelled, wg, doneCount, waitGroups, sweep, result, devVars, pfVars, wrVars, rtcVars, brVars, smVars>>

\* (mutation) the loop cancels and collects every operation, whatever its type
AbortPlayFileCollectAll(w) ==
  /\ pc[w] = "apf_locked"
  /\ mu = w
  /\ cancelled' = [o \in Ops |-> cancelled[o] \/ o \in Tracked]
  /\ waitGroups' = [waitGroups EXCEPT ![w] = SelectSeq(activeOps, LAMBDA o : o # w)]
  /\ activeOps' = <<>>
  /\ mu' = MuAfterCollect(w)
  /\ pc' = [pc EXCEPT ![w] = "apf_wait"]
  /\ UNCHANGED <<wg, doneCount, sweep, inflight, result, devVars, pfVars, wrVars, rtcVars, brVars, smVars>>

\* the loop over am.activeOps: cancel and collect every play-file operation,
\* keep the others; am.activeOps = newActiveOps; unlock
AbortPlayFileCollect(w) ==
  /\ pc[w] = "apf_locked"
  /\ mu = w
  /\ cancelled' = [o \in Ops |-> cancelled[o] \/ (o \in Tracked /\ IsPlayFile(o))]
  /\ waitGroups' = [waitGroups EXCEPT ![w] = SelectSeq(activeOps, IsPlayFile)]
  /\ activeOps' = SelectSeq(activeOps, LAMBDA o : ~IsPlayFile(o))
  /\ mu' = MuAfterCollect(w)
  /\ pc' = [pc EXCEPT ![w] = "apf_wait"]
  /\ UNCHANGED <<wg, doneCount, sweep, inflight, result, devVars, pfVars, wrVars, rtcVars, brVars, smVars>>

\* for _, wg := range waitGroups { wg.Wait() }
AbortPlayFileWait(w) ==
  /\ pc[w] = "apf_wait"
  /\ waitGroups[w] # <<>>
  /\ wg[Head(waitGroups[w])] = 0
  /\ waitGroups' = [waitGroups EXCEPT ![w] = Tail(@)]
  /\ UNCHANGED <<mu, activeOps, cancelled, wg, doneCount, sweep, inflight, pc, result, devVars, pfVars, wrVars, rtcVars, brVars, smVars>>

\* AbortPlayFileOperations returns to its caller
AbortPlayFileReturn(w) ==
  /\ pc[w] = "apf_wait"
  /\ waitGroups[w] = <<>>
  /\ pc' = [pc EXCEPT ![w] = "w_active"]
  /\ inflight' = [inflight EXCEPT ![w] = {}]
  /\ UNCHANGED <<mu, activeOps, cancelled, wg, doneCount, waitGroups, sweep, result, devVars, pfVars, wrVars, rtcVars, brVars, smVars>>

\* HandleAbort -> AbortAll: am.mu.Lock()
AbortAllLock(a) ==
  /\ pc[a] = "idle"
  /\ mu = Free
  /\ mu' = a
  /\ pc' = [pc EXCEPT ![a] = "aa_locked"]
  /\ UNCHANGED <<activeOps, cancelled, wg, doneCount, waitGroups, sweep, inflight, result, devVars, pfVars, wrVars, rtcVars, brVars, smVars>>

\* cancel every tracked operation, collect its wait group, clear the slice, unlock
AbortAllCollect(a) ==
  /\ pc[a] = "aa_locked"
  /\ mu = a
  /\ cancelled' = [o \in Ops |-> cancelled[o] \/ o \in Tracked]
  /\ waitGroups' = [waitGroups EXCEPT ![a] = activeOps]
  /\ activeOps' = <<>>
  /\ mu' = MuAfterCollect(a)
  /\ pc' = [pc EXCEPT ![a] = "aa_wait"]
  /\ inflight' = [inflight EXCEPT ![a] = Tracked]
  /\ UNCHANGED <<wg, doneCount, sweep, result, devVars, pfVars, wrVars, rtcVars, brVars, smVars>>

\* for _, wg := range waitGroups { wg.Wait() }
AbortAllWait(a) ==
  /\ pc[a] = "aa_wait"
  /\ waitGroups[a] # <<>>
  /\ wg[Head(waitGroups[a])] = 0
  /\ waitGroups' = [waitGroups EXCEPT ![a] = Tail(@)]
  /\ UNCHANGED <<mu, activeOps, cancelled, wg, doneCount, sweep, inflight, pc, result, devVars, pfVars, wrVars, rtcVars, brVars, smVars>>

\* channels, err := am.sessionManager.ListChannels(ctx); if err != nil { return err }
AbortAllList(a) ==
  /\ pc[a] = "aa_wait"
  /\ waitGroups[a] = <<>>
  /\ \E ok \in BOOLEAN :
       IF ok
         THEN /\ sweep' = [sweep EXCEPT ![a] = EnabledFrom(channels, 1)]
              /\ pc' = [pc EXCEPT ![a] = "aa_release"]
              /\ UNCHANGED result
         ELSE /\ pc' = [pc EXCEPT ![a] = "done"]
              /\ result' = [result EXCEPT ![a] = "error"]
              /\ UNCHANGED sweep
  /\ inflight' = [inflight EXCEPT ![a] = {}]
  /\ UNCHANGED <<mu, activeOps, cancelled, wg, doneCount, waitGroups, devVars, pfVars, wrVars, rtcVars, brVars, smVars>>

\* (mutation) the first failed release ends the sweep and is returned
AbortAllReleaseOrFail(a) ==
  /\ pc[a] = "aa_release"
  /\ sweep[a] # <<>>
  /\ \E ok \in BOOLEAN :
       IF ok
         THEN /\ channels' = [channels EXCEPT ![Head(sweep[a])] = FALSE]
              /\ openedBy' = [openedBy EXCEPT ![Head(sweep[a])] = None]
              /\ sweep' = [sweep EXCEPT ![a] = Tail(@)]
              /\ UNCHANGED <<pc, result>>
         ELSE /\ pc' = [pc EXCEPT ![a] = "done"]
              /\ result' = [result EXCEPT ![a] = "error"]
              /\ sweep' = [sweep EXCEPT ![a] = <<>>]
              /\ UNCHANGED devVars
  /\ UNCHANGED <<mu, activeOps, cancelled, wg, doneCount, waitGroups, inflight, pfVars, wrVars, rtcVars, brVars, smVars>>

\* for each enabled channel: ReleaseChannel, a failure logged and skipped
AbortAllRelease(a) ==
  /\ pc[a] = "aa_release"
  /\ sweep[a] # <<>>
  /\ \E ok \in BOOLEAN :
       IF ok
         THEN /\ channels' = [channels EXCEPT ![Head(sweep[a])] = FALSE]
              /\ openedBy' = [openedBy EXCEPT ![Head(sweep[a])] = None]
         ELSE UNCHANGED devVars
  /\ sweep' = [sweep EXCEPT ![a] = Tail(@)]
  /\ UNCHANGED <<mu, activeOps, cancelled, wg, doneCount, waitGroups, inflight, pc, result, pfVars, wrVars, rtcVars, brVars, smVars>>

\* return nil
AbortAllReturn(a) ==
  /\ pc[a] = "aa_release"
  /\ sweep[a] = <<>>
  /\ pc' = [pc EXCEPT ![a] = "done"]
  /\ result' = [result EXCEPT ![a] = "ok"]
  /\ UNCHANGED <<regVars, devVars, pfVars, wrVars, rtcVars, brVars, smVars>>

(***************************************************************************)
(* A WebRTC operation as the registry sees it: registration, the           *)
(* precedence abort, and the completion of its cleanup.                    *)
(***************************************************************************)
\* Register(OperationTypeWebRTC, cancel)
OfferRegister(w) ==
  /\ pc[w] = "idle"
  /\ mu = Free
  /\ activeOps' = RegisterOp(activeOps, w)
  /\ wg' = [wg EXCEPT ![w] = 1]
  /\ pc' = [pc EXCEPT ![w] = "w_abort"]
  /\ UNCHANGED <<mu, cancelled, doneCount, waitGroups, sweep, inflight, result, devVars, pfVars, wrVars, rtcVars, brVars, smVars>>

\* cleanup begins: the operation's cancellation token is cancelled
OfferCancel(w) ==
  /\ pc[w] = "w_active"
  /\ cancelled' = [cancelled EXCEPT ![w] = TRUE]
  /\ pc' = [pc EXCEPT ![w] = "w_done"]
  /\ UNCHANGED <<mu, activeOps, wg, doneCount, waitGroups, sweep, inflight, result, devVars, pfVars, wrVars, rtcVars, brVars, smVars>>

\* cleanup: signal operation completion
OfferDone(w) ==
  /\ pc[w] = "w_done"
  /\ wg' = [wg EXCEPT ![w] = @ - 1]
  /\ doneCount' = [doneCount EXCEPT ![w] = @ + 1]
  /\ pc' = [pc EXCEPT ![w] = "w_unreg"]
  /\ UNCHANGED <<mu, activeOps, cancelled, waitGroups, sweep, inflight, result, devVars, pfVars, wrVars, rtcVars, brVars, smVars>>

\* cleanup: unregister from the registry
OfferUnregister(w) ==
  /\ pc[w] = "w_unreg"
  /\ mu = Free
  /\ activeOps' = UnregisterOp(activeOps, w)
  /\ pc' = [pc EXCEPT ![w] = "done"]
  /\ UNCHANGED <<mu, cancelled, wg, doneCount, waitGroups, sweep, inflight, result, devVars, pfVars, wrVars, rtcVars, brVars, smVars>>

OfferStep(w) ==
  \/ OfferRegister(w)
  \/ AbortPlayFileLock(w) \/ AbortPlayFileCollect(w) \/ AbortPlayFileWait(w)
  \/ AbortPlayFileReturn(w)
  \/ OfferCancel(w) \/ OfferDone(w) \/ OfferUnregister(w)

AbortStep(a) ==
  \/ AbortAllLock(a) \/ AbortAllCollect(a) \/ AbortAllWait(a)
  \/ AbortAllList(a) \/ AbortAllRelease(a) \/ AbortAllReturn(a)

\* The gateway as a whole: every request runs concurrently.  The send loops
\* of the writers are left unscheduled here; SpecPlay schedules them.
Next ==
  \/ \E p \in PlayFiles : PlayFileStep(p)
  \/ OfferStep("w1")
  \/ \E a \in Aborters : AbortStep(a)

Spec == Init /\ [][Next]_vars

\* One play-file request with its writer's send loop, against a WebRTC
\* operation's precedence abort and a bulk abort.
NextPlay ==
  \/ PlayFileStep("p1")
  \/ WriterStep("p1")
  \/ OfferStep("w1")
  \/ \E a \in Aborters : AbortStep(a)

SpecPlay == Init /\ [][NextPlay]_vars

\* POST /api/abort is requested again after the previous request has returned
AbortAgain(a) ==
  /\ pc[a] = "done"
  /\ pc' = [pc EXCEPT ![a] = "idle"]
  /\ UNCHANGED <<regVars, result, devVars, pfVars, wrVars, rtcVars, brVars, smVars>>

\* The registry under repeated bulk aborts: one play-file request, two WebRTC
\* operations with their precedence aborts, and an abort client that may
\* repeat its request.
NextAbort ==
  \/ PlayFileStep("p1")
  \/ \E w \in Offers : OfferStep(w)
  \/ \E a \in Aborters : AbortStep(a) \/ AbortAgain(a)

SpecAbort == Init /\ [][NextAbort]_vars

(***************************************************************************)
(* WebRTCHandler (webrtc.go): HandleOffer, the OnTrack and                 *)
(* OnConnectionStateChange callbacks it installs, cleanup and Close.       *)
(***************************************************************************)
\* what the WebRTC handler never touches: it holds no reference to the registry
gwVars == <<regVars, pc, result, pfVars, wrVars, brVars, smVars>>

\* h.mu.Lock(); defer h.mu.Unlock()
HOLock(o) ==
  /\ rpc[o] = "idle"
  /\ hmu = Free
  /\ hmu' = o
  /\ rpc' = [rpc EXCEPT ![o] = "o_decode"]
  /\ UNCHANGED <<peerConnection, audioWriter, audioReader, activeSession, pcState,
                 pcCloses, chanCloses, rresult, rchosen, clog, gwVars, devVars>>

\* decode the offer, configure, api.NewPeerConnection(config);
\* h.peerConnection = peerConnection
HOCreate(o) ==
  /\ rpc[o] = "o_decode"
  /\ \E outcome \in {"ok", "bad_request", "error"} :
       IF outcome = "ok"
         THEN /\ pcState' = [pcState EXCEPT ![o] = "open"]
              /\ peerConnection' = o
              /\ rpc' = [rpc EXCEPT ![o] = "o_negotiate"]
              /\ UNCHANGED <<hmu, rresult>>
         ELSE /\ rresult' = [rresult EXCEPT ![o] = outcome]
              /\ hmu' = Free
              /\ rpc' = [rpc EXCEPT ![o] = "done"]
              /\ UNCHANGED <<pcState, peerConnection>>
  /\ UNCHANGED <<audioWriter, audioReader, activeSession, pcCloses, chanCloses,
                 rchosen, clog, gwVars, devVars>>

\* add the track, install the callbacks, set the descriptions, wait for ICE
\* gathering, send the answer; a failure returns with the connection left set
HOAnswer(o) ==
  /\ rpc[o] = "o_negotiate"
  /\ \E outcome \in {"ok", "error"} :
       rresult' = [rresult EXCEPT ![o] = outcome]
  /\ hmu' = Free
  /\ rpc' = [rpc EXCEPT ![o] = "done"]
  /\ UNCHANGED <<peerConnection, audioWriter, audioReader, activeSession, pcState,
                 pcCloses, chanCloses, rchosen, clog, gwVars, devVars>>

\* OnTrack: if h.activeSession == nil { ... }
OTCheck(o) ==
  /\ rpc[TrackOf[o]] = "idle"
  /\ rpc[o] = "done" /\ rresult[o] = "ok"
  /\ pcState[o] = "open"
  /\ rpc' = [rpc EXCEPT ![TrackOf[o]] = IF activeSession = 0 THEN "ot_list" ELSE "rtp"]
  /\ UNCHANGED <<hmu, peerConnection, audioWriter, audioReader, activeSession, pcState,
                 pcCloses, chanCloses, rresult, rchosen, clog, gwVars, devVars>>

\* GetTwoWayAudioChannels and the search for the first channel not enabled
OTList(o) ==
  /\ rpc[TrackOf[o]] = "ot_list"
  /\ \E ok \in BOOLEAN :
       IF ok /\ FirstFree(channels) # 0
         THEN /\ rchosen' = [rchosen EXCEPT ![TrackOf[o]] = FirstFree(channels)]
              /\ rpc' = [rpc EXCEPT ![TrackOf[o]] = "ot_open"]
         ELSE /\ rpc' = [rpc EXCEPT ![TrackOf[o]] = "done"]
              /\ UNCHANGED rchosen
  /\ UNCHANGED <<hmu, peerConnection, audioWriter, audioReader, activeSession, pcState,
                 pcCloses, chanCloses, rresult, clog, gwVars, devVars>>

\* OpenAudioChannel(channelID); h.activeSession, h.audioWriter, h.audioReader
\* are set, the device-to-client task and the RTP task are started
OTOpen(o) ==
  /\ rpc[TrackOf[o]] = "ot_open"
  /\ \E ok \in BOOLEAN :
       IF ok /\ ~channels[rchosen[TrackOf[o]]]
         THEN /\ channels' = [channels EXCEPT ![rchosen[TrackOf[o]]] = TRUE]
              /\ openedBy' = [openedBy EXCEPT ![rchosen[TrackOf[o]]] = TrackOf[o]]
              /\ chanCloses' = [chanCloses EXCEPT ![rchosen[TrackOf[o]]] = 0]
              /\ activeSession' = rchosen[TrackOf[o]]
              /\ audioWriter' = rchosen[TrackOf[o]]
              /\ audioReader' = rchosen[TrackOf[o]]
              /\ rpc' = [rpc EXCEPT ![TrackOf[o]] = "rtp",
                                    ![ReaderOf[o]] = "reading"]
         ELSE /\ rpc' = [rpc EXCEPT ![TrackOf[o]] = "done"]
              /\ UNCHANGED <<devVars, chanCloses, activeSession, audioWriter, audioReader>>
  /\ UNCHANGED <<hmu, peerConnection, pcState, pcCloses, rresult, rchosen,
                 clog, gwVars>>

\* the RTP task ends (ReadRTP or writer.Write fails): defer h.cleanup()
RTPEnd(o) ==
  /\ rpc[TrackOf[o]] = "rtp"
  /\ rpc' = [rpc EXCEPT ![TrackOf[o]] = "c_w"]
  /\ UNCHANGED <<hmu, peerConnection, audioWriter, audioReader, activeSession, pcState,
                 pcCloses, chanCloses, rresult, rchosen, clog, gwVars, devVars>>

\* OnConnectionStateChange with Failed, Closed or Disconnected: h.cleanup()
StateChange(o) ==
  /\ rpc[StateOf[o]] = "idle"
  /\ rpc[o] = "done" /\ rresult[o] = "ok"
  /\ rpc' = [rpc EXCEPT ![StateOf[o]] = "c_w"]
  /\ UNCHANGED <<hmu, peerConnection, audioWriter, audioReader, activeSession, pcState,
                 pcCloses, chanCloses, rresult, rchosen, clog, gwVars, devVars>>

\* Close: h.mu.Lock(); defer h.mu.Unlock(); h.cleanup()
CloseLock(x) ==
  /\ rpc[x] = "idle"
  /\ hmu = Free
  /\ hmu' = x
  /\ rpc' = [rpc EXCEPT ![x] = "c_w"]
  /\ UNCHANGED <<peerConnection, audioWriter, audioReader, activeSession, pcState,
                 pcCloses, chanCloses, rresult, rchosen, clog, gwVars, devVars>>

(***************************************************************************)
(* WebRTCHandler.cleanup.  Only Close takes h.mu; the callbacks run         *)
(* cleanup without it, so the test of a field, the call through it and its *)
(* clearing are separate steps that interleave with other invocations.     *)
(***************************************************************************)
\* the log of Close's cleanup after invocation k has performed effect e
Logged(k, e) == IF k \in Closers THEN Append(clog, e) ELSE clog

\* h.mu once a panicking invocation has unwound (Close's deferred Unlock)
HmuAfter(k) == IF hmu = k THEN Free ELSE hmu

\* if h.audioWriter != nil
CleanupCheckWriter(k) ==
  /\ rpc[k] = "c_w"
  /\ rpc' = [rpc EXCEPT ![k] = IF audioWriter # 0 THEN "c_w_close" ELSE "c_r"]
  /\ UNCHANGED <<hmu, peerConnection, audioWriter, audioReader, activeSession, pcState,
                 pcCloses, chanCloses, rresult, rchosen, clog, gwVars, devVars>>

\* h.audioWriter.Close()
CleanupCloseWriter(k) ==
  /\ rpc[k] = "c_w_close"
  /\ IF audioWriter = 0
       THEN /\ rpc' = [rpc EXCEPT ![k] = "panicked"]
            /\ hmu' = HmuAfter(k)
            /\ UNCHANGED <<clog, pcState, pcCloses, chanCloses, devVars>>
       ELSE /\ clog' = Logged(k, "closeWriter")
            /\ rpc' = [rpc EXCEPT ![k] = "c_w_nil"]
            /\ UNCHANGED <<pcState, pcCloses, chanCloses, devVars>>
            /\ UNCHANGED hmu
  /\ UNCHANGED <<peerConnection, audioWriter, audioReader, activeSession, rresult,
                 rchosen, gwVars>>

\* h.audioWriter = nil
CleanupClearWriter(k) ==
  /\ rpc[k] = "c_w_nil"
  /\ audioWriter' = 0
  /\ rpc' = [rpc EXCEPT ![k] = "c_r"]
  /\ UNCHANGED <<hmu, peerConnection, audioReader, activeSession, pcState,
                 pcCloses, chanCloses, rresult, rchosen, clog, gwVars, devVars>>

\* if h.audioReader != nil
CleanupCheckReader(k) ==
  /\ rpc[k] = "c_r"
  /\ rpc' = [rpc EXCEPT ![k] = IF audioReader # 0 THEN "c_r_close" ELSE "c_s"]
  /\ UNCHANGED <<hmu, peerConnection, audioWriter, audioReader, activeSession, pcState,
                 pcCloses, chanCloses, rresult, rchosen, clog, gwVars, devVars>>

\* h.audioReader.Close()
CleanupCloseReader(k) ==
  /\ rpc[k] = "c_r_close"
  /\ IF audioReader = 0
       THEN /\ rpc' = [rpc EXCEPT ![k] = "panicked"]
            /\ hmu' = HmuAfter(k)
            /\ UNCHANGED <<clog, pcState, pcCloses, chanCloses, devVars>>
       ELSE /\ clog' = Logged(k, "closeReader")
            /\ rpc' = [rpc EXCEPT ![k] = "c_r_nil"]
            /\ UNCHANGED <<pcState, pcCloses, chanCloses, devVars>>
            /\ UNCHANGED hmu
  /\ UNCHANGED <<peerConnection, audioWriter, audioReader, activeSession, rresult,
                 rchosen, gwVars>>

\* h.audioReader = nil
CleanupClearReader(k) ==
  /\ rpc[k] = "c_r_nil"
  /\ audioReader' = 0
  /\ rpc' = [rpc EXCEPT ![k] = "c_s"]
  /\ UNCHANGED <<hmu, peerConnection, audioWriter, activeSession, pcState,
                 pcCloses, chanCloses, rresult, rchosen, clog, gwVars, devVars>>

\* if h.activeSession != nil
CleanupCheckSession(k) ==
  /\ rpc[k] = "c_s"
  /\ rpc' = [rpc EXCEPT ![k] = IF activeSession # 0 THEN "c_s_close" ELSE "c_p"]
  /\ UNCHANGED <<hmu, peerConnection, audioWriter, audioReader, activeSession, pcState,
                 pcCloses, chanCloses, rresult, rchosen, clog, gwVars, devVars>>

\* h.hikClient.CloseAudioChannel(h.activeSession.ChannelID), its error dropped
CleanupCloseSession(k) ==
  /\ rpc[k] = "c_s_close"
  /\ IF activeSession = 0
       THEN /\ rpc' = [rpc EXCEPT ![k] = "panicked"]
            /\ hmu' = HmuAfter(k)
            /\ UNCHANGED <<clog, pcState, pcCloses, chanCloses, devVars>>
       ELSE /\ clog' = Logged(k, "release")
            /\ rpc' = [rpc EXCEPT ![k] = "c_s_nil"]
            /\ chanCloses' = [chanCloses EXCEPT ![activeSession] = @ + 1]
            /\ \E ok \in BOOLEAN :
                 IF ok
                   THEN /\ channels' = [channels EXCEPT ![activeSession] = FALSE]
                        /\ openedBy' = [openedBy EXCEPT ![activeSession] = None]
                   ELSE UNCHANGED devVars
            /\ UNCHANGED <<pcState, pcCloses>>
            /\ UNCHANGED hmu
  /\ UNCHANGED <<peerConnection, audioWriter, audioReader, activeSession, rresult,
                 rchosen, gwVars>>

\* h.activeSession = nil
CleanupClearSession(k) ==
  /\ rpc[k] = "c_s_nil"
  /\ activeSession' = 0
  /\ rpc' = [rpc EXCEPT ![k] = "c_p"]
  /\ UNCHANGED <<hmu, peerConnection, audioWriter, audioReader, pcState,
                 pcCloses, chanCloses, rresult, rchosen, clog, gwVars, devVars>>

\* if h.peerConnection != nil
CleanupCheckPC(k) ==
  /\ rpc[k] = "c_p"
  /\ rpc' = [rpc EXCEPT ![k] = IF peerConnection # None THEN "c_p_close" ELSE "c_end"]
  /\ UNCHANGED <<hmu, peerConnection, audioWriter, audioReader, activeSession, pcState,
                 pcCloses, chanCloses, rresult, rchosen, clog, gwVars, devVars>>

\* h.peerConnection.Close()
CleanupClosePC(k) ==
  /\ rpc[k] = "c_p_close"
  /\ IF peerConnection = None
       THEN /\ rpc' = [rpc EXCEPT ![k] = "panicked"]
            /\ hmu' = HmuAfter(k)
            /\ UNCHANGED <<clog, pcState, pcCloses, chanCloses, devVars>>
       ELSE /\ clog' = Logged(k, "closePC")
            /\ rpc' = [rpc EXCEPT ![k] = "c_p_nil"]
            /\ pcState' = [pcState EXCEPT ![peerConnection] = "closed"]
            /\ pcCloses' = [pcCloses EXCEPT ![peerConnection] = @ + 1]
            /\ UNCHANGED <<chanCloses, devVars>>
            /\ UNCHANGED hmu
  /\ UNCHANGED <<peerConnection, audioWriter, audioReader, activeSession, rresult,
                 rchosen, gwVars>>

\* h.peerConnection = nil
CleanupClearPC(k) ==
  /\ rpc[k] = "c_p_nil"
  /\ peerConnection' = None
  /\ rpc' = [rpc EXCEPT ![k] = "c_end"]
  /\ UNCHANGED <<hmu, audioWriter, audioReader, activeSession, pcState,
                 pcCloses, chanCloses, rresult, rchosen, clog, gwVars, devVars>>

\* cleanup returns; Close's deferred h.mu.Unlock() runs
CleanupReturn(k) ==
  /\ rpc[k] = "c_end"
  /\ rpc' = [rpc EXCEPT ![k] = "done"]
  /\ hmu' = HmuAfter(k)
  /\ UNCHANGED <<peerConnection, audioWriter, audioReader, activeSession, pcState,
                 pcCloses, chanCloses, rresult, rchosen, clog, gwVars, devVars>>

CleanupStep(k) ==
  \/ CleanupCheckWriter(k) \/ CleanupCloseWriter(k) \/ CleanupClearWriter(k)
  \/ CleanupCheckReader(k) \/ CleanupCloseReader(k) \/ CleanupClearReader(k)
  \/ CleanupCheckSession(k) \/ CleanupCloseSession(k) \/ CleanupClearSession(k)
  \/ CleanupCheckPC(k) \/ CleanupClosePC(k) \/ CleanupClearPC(k)
  \/ CleanupReturn(k)

HandleOfferStep(o) ==
  \/ HOLock(o) \/ HOCreate(o) \/ HOAnswer(o)

OnTrackStep(o) ==
  \/ OTCheck(o) \/ OTList(o) \/ OTOpen(o) \/ RTPEnd(o)

\* The WebRTC handler: concurrent offers, the callbacks of their peer
\* connections, and Close.
NextRTC ==
  \/ \E o \in RTCOffers : HandleOfferStep(o)
  \/ \E o \in DOMAIN TrackOf : OnTrackStep(o)
  \/ \E o \in DOMAIN StateOf : StateChange(o)
  \/ \E x \in Closers : CloseLock(x)
  \/ \E k \in Invokers : CleanupStep(k)

SpecRTC == Init /\ [][NextRTC]_vars

(***************************************************************************)
(* Properties.                                                             *)
(***************************************************************************)
\* channels whose open through the gateway has not been followed by a close
GatewayOpen == {c \in Chans : openedBy[c] # None}

\* AbortPlayFileOperations returns to the WebRTC operation w in this step
AbortPlayFileReturns(w) == pc[w] = "apf_wait" /\ pc'[w] = "w_active"

\* C1: in every reachable state at most one AudioSession opened through the
\* gateway is open on the device.
C1_AtMostOneSession == Cardinality(GatewayOpen) <= 1

\* C2: whenever AbortPlayFileOperations returns to a WebRTC offer, the
\* registry tracks no play-file operation.
C2_NoPlayFileTrackedAtReturn ==
  [][\A w \in Offers :
       AbortPlayFileReturns(w) =>
         \A i \in 1..Len(activeOps') : ~IsPlayFile(activeOps'[i])]_vars

\* C3: AbortPlayFileOperations returns only after the completion signal of
\* every play-file operation in flight at the call has fired, and when it
\* returns no play-file operation holds an open device channel.
C3_ChannelFreeAtReturn ==
  [][\A w \in Offers :
       AbortPlayFileReturns(w) =>
         /\ \A p \in inflight[w] : doneCount'[p] > 0
         /\ \A c \in Chans : ~IsPlayFile(openedBy'[c])]_vars

\* C4: the completion signal of a play-file operation fires only after the
\* writer's send loop has stopped and closed its device connection and
\* ReleaseChannel for its session has returned.
C4_DoneAfterAllReleased ==
  \A p \in PlayFiles :
    doneCount[p] > 0 =>
      /\ wstate[p] \in {"none", "exited"}
      /\ ~wconn[p]
      /\ pc[p] \in {"d_cancel", "done"}

\* C5: a play-file request that has called Register calls Cleanup.Done exactly
\* once on every exit path: never twice, and once by the time it has returned.
C5_DoneExactlyOnce ==
  \A p \in PlayFiles :
    /\ doneCount[p] <= 1
    /\ wg[p] >= 0
    /\ (pc[p] = "done") => (doneCount[p] = 1 /\ wg[p] = 0)
    /\ (pc[p] \in {"idle", "admitted", "rejected"}) => doneCount[p] = 0

\* a request cancelled and removed from the registry by the bulk abort has
\* returned, its completion signal fired once, and the abort has gone on
C5_Witness ==
  /\ pc["p1"] = "done"
  /\ result["p1"] = "interrupted"
  /\ doneCount["p1"] = 1
  /\ pc["a1"] = "done"

\* C6: neither abort holds the registry lock while it waits on a completion
\* signal: the lock is held only inside the snapshot's critical section, so
\* the lock-taking step of a cleanup that unregisters itself stays enabled.
C6_NoLockWhileWaiting ==
  /\ \A c \in Callers : pc[c] \in {"apf_wait", "aa_wait"} => mu # c
  /\ mu # Free => pc[mu] \in {"apf_locked", "aa_locked"}
  /\ \A p \in PlayFiles :
       (pc[p] = "d_unreg" /\ \A c \in Callers : pc[c] \notin {"apf_locked", "aa_locked"})
         => ENABLED PFUnregister(p)

\* the bulk abort is blocked on p1's completion signal, and p1's cleanup has
\* already taken the lock and unregistered itself
C6_Witness ==
  /\ pc["a1"] = "aa_wait"
  /\ waitGroups["a1"] # <<>>
  /\ Head(waitGroups["a1"]) = "p1"
  /\ wg["p1"] = 1
  /\ pc["p1"] = "d_done"

\* C10: a play-file request that finds HasActiveOperation() true is rejected
\* with a conflict and changes nothing else: the registry, the cancellation and
\* completion state of every operation, the device and every writer are as
\* before.
C10_RejectChangesNothing ==
  [][\A p \in PlayFiles :
       (pc[p] = "idle" /\ pc'[p] # "idle" /\ HasActiveOperation) =>
         /\ pc'[p] = "rejected"
         /\ result'[p] = "conflict"
         /\ UNCHANGED <<regVars, devVars, pfVars, wrVars>>]_vars

\* p2 was rejected while p1 held the device channel
C10_Witness ==
  /\ pc["p2"] = "rejected"
  /\ result["p2"] = "conflict"
  /\ openedBy[1] = "p1"

\* the order of effects prescribed for a WebRTC session cleanup
CleanupOrder ==
  <<"cancel", "closeWriter", "closeReader", "release", "closePC", "done", "unregister">>

\* C7: under concurrent invocations of cleanup (RTP task, connection-state
\* callback, Close) the device channel of a session is closed at most once,
\* a peer connection is closed at most once, and no invocation calls through
\* a field that another invocation has already cleared.
C7_CleanupAtMostOnce ==
  /\ \A c \in Chans : chanCloses[c] <= 1
  /\ \A o \in RTCOffers : pcCloses[o] <= 1
  /\ \A k \in Invokers : rpc[k] # "panicked"

\* C8: a cleanup that releases the device session performs exactly the
\* prescribed effects in the prescribed order: cancel, close the writer and
\* the reader, release the session, close the peer connection, signal
\* completion, unregister.
C8_CleanupOrder ==
  \A x \in Closers :
    (rpc[x] = "done" /\ \E i \in 1..Len(clog) : clog[i] = "release")
      => clog = CleanupOrder

\* C9: no offer creates a peer connection while the peer connection of
\* another offer is open: at most one WebRTC call is active at any time.
C9_SingleCall ==
  Cardinality({o \in RTCOffers : pcState[o] = "open"}) <= 1

\* the elements of a sequence
Range(q) == {q[i] : i \in 1..Len(q)}

\* C11: AbortAll cancels every operation tracked when it takes its snapshot;
\* it goes on to the channel listing only when the completion signal of each
\* of them has fired; the listing puts every enabled channel on its release
\* list whoever opened it; a release is attempted only after the listing, on
\* the head of that list; and it returns success only with the list exhausted.
C11_AbortAllSweep ==
  [][\A a \in Aborters :
       /\ (pc[a] = "aa_locked" /\ pc'[a] = "aa_wait")
            => \A o \in Tracked : cancelled'[o]
       /\ (pc[a] = "aa_wait" /\ pc'[a] # "aa_wait")
            => \A o \in inflight[a] : doneCount[o] > 0 /\ wg[o] = 0
       /\ (pc[a] = "aa_wait" /\ pc'[a] = "aa_release")
            => Range(sweep'[a]) = {c \in Chans : channels[c]}
       /\ (sweep[a] # <<>> /\ sweep'[a] # sweep[a])
            => /\ pc[a] = "aa_release"
               /\ sweep'[a] = Tail(sweep[a])
               /\ \A c \in Chans : c # Head(sweep[a]) => channels'[c] = channels[c]
       /\ (pc[a] = "aa_release" /\ pc'[a] = "done")
            => sweep[a] = <<>> /\ result'[a] = "ok"]_vars

\* the bulk abort has waited out the play-file p2 it cancelled and is about to
\* release a channel left enabled by p1, which finished and unregistered
\* earlier with its own release failed
C11_Witness ==
  /\ pc["a1"] = "aa_release"
  /\ sweep["a1"] # <<>>
  /\ pc["p1"] = "done"
  /\ openedBy[Head(sweep["a1"])] = "p1"
  /\ cancelled["p2"] /\ result["p2"] = "interrupted" /\ doneCount["p2"] = 1

\* C12: a release attempt of AbortAll, failed or not, is followed by the
\* attempts on the remaining enabled channels, and a call that reached the
\* sweep returns success; AbortAll returns an error only from a failed
\* listing, and then every operation of its snapshot has been cancelled and
\* removed and the call has changed no channel.
C12_BestEffortRelease ==
  [][\A a \in Aborters :
       /\ (pc[a] = "aa_release" /\ sweep[a] # <<>>)
            => /\ ENABLED AbortAllRelease(a)
               /\ pc'[a] = "aa_release"
               /\ result'[a] = result[a]
       /\ (pc[a] = "aa_release" /\ pc'[a] = "done") => result'[a] = "ok"
       /\ (pc[a] # "done" /\ pc'[a] = "done" /\ result'[a] = "error")
            => /\ pc[a] = "aa_wait"
               /\ waitGroups[a] = <<>>
               /\ \A o \in inflight[a] : cancelled[o] /\ o \notin Tracked
               /\ UNCHANGED devVars]_vars

\* the release of channel 1 failed (it is still enabled and still p1's) and
\* the sweep has gone on to channel 2
C12_Witness ==
  /\ pc["a1"] = "aa_release"
  /\ sweep["a1"] = <<2>>
  /\ channels[1] /\ openedBy[1] = "p1"
  /\ channels[2] /\ openedBy[2] = "p2"

\* no play-file request and no WebRTC operation is in flight
Quiescent == \A o \in Ops : pc[o] \in {"idle", "done", "rejected"}

\* a takes a step of an AbortAll call that follows a call of its own that
\* returned success, with no other request in flight
RepeatedAbortStep(a) ==
  /\ result[a] = "ok"
  /\ pc[a] # "done"
  /\ pc'[a] # pc[a] \/ sweep'[a] # sweep[a]
  /\ Quiescent

\* C13 (as stated): a second AbortAll with no intervening request succeeds,
\* cancels nothing, waits on nothing and leaves the state of the first call:
\* an empty registry and every device channel not enabled.
C13_Idempotent ==
  [][\A a \in Aborters :
       RepeatedAbortStep(a) =>
         /\ activeOps' = <<>> /\ cancelled' = cancelled /\ waitGroups'[a] = <<>>
         /\ \A c \in Chans : ~channels'[c]
         /\ pc'[a] = "done" => result'[a] = "ok"]_vars

\* C13 (amended): when the first call has left every device channel not
\* enabled, a second AbortAll with no intervening request cancels nothing,
\* waits on nothing, puts no channel on its release list and leaves the
\* registry and the channels as they were; it returns success unless its own
\* channel listing fails.
C13_IdempotentWhenFree ==
  [][\A a \in Aborters :
       (RepeatedAbortStep(a) /\ \A c \in Chans : ~channels[c]) =>
         /\ activeOps' = <<>> /\ cancelled' = cancelled /\ waitGroups'[a] = <<>>
         /\ UNCHANGED devVars
         /\ sweep'[a] = <<>>
         /\ pc'[a] = "done" => (result'[a] = "ok" \/ pc[a] = "aa_wait")]_vars

\* the second call of a1, made after p1 was aborted and every channel freed,
\* has listed the channels and found nothing to release
C13_Witness ==
  /\ pc["a1"] = "aa_release"
  /\ result["a1"] = "ok"
  /\ sweep["a1"] = <<>>
  /\ Quiescent
  /\ cancelled["p1"] /\ result["p1"] = "interrupted"
  /\ \A c \in Chans : ~channels[c]

\* w takes a step of its AbortPlayFileOperations call
AbortPlayFileActs(w) ==
  /\ pc[w] \in {"w_abort", "apf_locked", "apf_wait"}
  /\ pc'[w] # pc[w] \/ waitGroups'[w] # waitGroups[w]

\* C14: no step of AbortPlayFileOperations touches a WebRTC operation: the
\* tracked WebRTC operations stay tracked in the same order, none of them
\* gets cancelled, and none is among the operations the call waits on.
C14_WebRTCUntouched ==
  [][\A w \in Offers :
       AbortPlayFileActs(w) =>
         /\ SelectSeq(activeOps', IsWebRTC) = SelectSeq(activeOps, IsWebRTC)
         /\ \A o \in Offers : cancelled'[o] = cancelled[o]
         /\ \A o \in Range(waitGroups'[w]) : ~IsWebRTC(o)]_vars

\* w2's precedence abort has removed and cancelled p1 and is waiting on it;
\* both WebRTC operations are still tracked, in registration order, uncancelled
C14_Witness ==
  /\ pc["w2"] = "apf_wait"
  /\ waitGroups["w2"] = <<"p1">>
  /\ cancelled["p1"]
  /\ activeOps = <<"w1", "w2">>
  /\ ~cancelled["w1"] /\ ~cancelled["w2"]

\* ---------------------------------------------------------------------------
\* AudioStreamReader (src/unnamed/part_003): the pump streamLoop, Read and Close
\* ---------------------------------------------------------------------------

\* everything outside the Audio Stream Bridge
apiVars == <<regVars, pc, result, devVars, pfVars, wrVars, rtcVars>>

\* the bytes of the device stream are numbered 1, 2, ...: bytes a+1 .. b
Bytes(a, b) == [i \in 1..(b - a) |-> a + i]

\* Go's copy(p, src) with len(p) = p: the number of bytes copied
CopyN(p, src) == IF p < Len(src) THEN p ELSE Len(src)

\* data[n:] dropped instead of kept
RestDropped(src, n) == SubSeq(src, Len(src) + 1, Len(src))

\* src[n:]
Rest(src, n) == SubSeq(src, n + 1, Len(src))

\* all bytes of the chunks of a queue, in order
RECURSIVE Flatten(_)
Flatten(q) == IF q = <<>> THEN <<>> ELSE Head(q) \o Flatten(Tail(q))

\* Start: wg.Add(1); go streamLoop()
RdStart ==
  /\ rdState = "new"
  /\ rdWg' = rdWg + 1
  /\ rdState' = "connect"
  /\ UNCHANGED <<rdData, rdAfter, rdNext, rdQueued, rdQ, rdErr, rdStop, rdBuf,
                 rdOnce, rdOut, rdP, rdRet, rdpc>>
  /\ UNCHANGED <<apiVars, swVars, smVars, hsVars, ftVars>>

\* streamLoop returns: the deferred wg.Done() runs
RdExit ==
  /\ rdState' = "exited"
  /\ rdWg' = rdWg - 1

\* streamLoop, lines 52-84: the request is built and sent; a failure or a status
\* other than 200 goes to errChan and ends the pump
RdConnect ==
  /\ rdState = "connect"
  /\ \/ /\ rdState' = "select"
        /\ UNCHANGED <<rdWg, rdErr>>
     \/ /\ ~rdErr
        /\ rdErr' = TRUE
        /\ RdExit
  /\ UNCHANGED <<rdData, rdAfter, rdNext, rdQueued, rdQ, rdStop, rdBuf,
                 rdOnce, rdOut, rdP, rdRet, rdpc>>
  /\ UNCHANGED <<apiVars, swVars, smVars, hsVars, ftVars>>

\* streamLoop, lines 86-92: select on stopChan with a default branch
RdLoop ==
  /\ rdState = "select"
  /\ IF rdStop
       THEN RdExit
       ELSE /\ rdState' = "read"
            /\ UNCHANGED rdWg
  /\ UNCHANGED <<rdData, rdAfter, rdNext, rdQueued, rdQ, rdErr, rdStop, rdBuf,
                 rdOnce, rdOut, rdP, rdRet, rdpc>>
  /\ UNCHANGED <<apiVars, swVars, smVars, hsVars, ftVars>>

\* streamLoop, lines 93-119: resp.Body.Read returns n bytes and err e; with
\* n = 0 the error is handled at once, with n > 0 after the chunk is sent
RdDeviceRead(n, e) ==
  /\ rdState = "read"
  /\ rdNext + n <= MaxBytes
  /\ rdNext' = rdNext + n
  /\ IF n > 0
       THEN /\ rdData' = Bytes(rdNext, rdNext + n)
            /\ rdAfter' = e
            /\ rdState' = "send"
            /\ UNCHANGED <<rdWg, rdErr>>
       ELSE /\ UNCHANGED <<rdData, rdAfter>>
            /\ CASE e = "none" -> /\ rdState' = "select"
                                  /\ UNCHANGED <<rdWg, rdErr>>
                 [] e = "eof"  -> /\ RdExit
                                  /\ UNCHANGED rdErr
                 [] e = "err"  -> /\ ~rdErr
                                  /\ rdErr' = TRUE
                                  /\ RdExit
  /\ UNCHANGED <<rdQueued, rdQ, rdStop, rdBuf, rdOnce, rdOut, rdP, rdRet, rdpc>>
  /\ UNCHANGED <<apiVars, swVars, smVars, hsVars, ftVars>>

\* streamLoop, lines 99-119: select { dataChan <- data | <-stopChan }, then the
\* error of the read that produced the chunk
RdSend ==
  /\ rdState = "send"
  /\ \/ /\ Len(rdQ) < RQueueCap
        /\ rdQ' = Append(rdQ, rdData)
        /\ rdQueued' = rdQueued + Len(rdData)
        /\ CASE rdAfter = "none" -> /\ rdState' = "select"
                                    /\ UNCHANGED <<rdWg, rdErr>>
             [] rdAfter = "eof"  -> /\ RdExit
                                    /\ UNCHANGED rdErr
             [] rdAfter = "err"  -> /\ ~rdErr
                                    /\ rdErr' = TRUE
                                    /\ RdExit
     \/ /\ rdStop
        /\ RdExit
        /\ UNCHANGED <<rdQ, rdQueued, rdErr>>
  /\ UNCHANGED <<rdData, rdAfter, rdNext, rdStop, rdBuf, rdOnce, rdOut, rdP, rdRet, rdpc>>
  /\ UNCHANGED <<apiVars, swVars, smVars, hsVars, ftVars>>

\* Read, lines 124-133: with a non-empty a.buffer the call returns from it;
\* otherwise it goes on to the select
RdReadCall(r, sz) ==
  /\ rdpc[r] = "idle"
  /\ IF rdBuf # <<>>
       THEN /\ rdOut' = rdOut \o SubSeq(rdBuf, 1, CopyN(sz, rdBuf))
            /\ rdBuf' = Rest(rdBuf, CopyN(sz, rdBuf))
            /\ rdRet' = <<CopyN(sz, rdBuf), "none">>
            /\ UNCHANGED <<rdP, rdpc>>
       ELSE /\ rdP' = sz
            /\ rdpc' = [rdpc EXCEPT ![r] = "select"]
            /\ UNCHANGED <<rdOut, rdBuf, rdRet>>
  /\ UNCHANGED <<rdState, rdData, rdAfter, rdNext, rdQueued, rdQ, rdErr, rdStop,
                 rdWg, rdOnce>>
  /\ UNCHANGED <<apiVars, swVars, smVars, hsVars, ftVars>>

\* Read, lines 135-148: select { <-dataChan | <-errChan | <-stopChan }
RdReadSelect(r) ==
  /\ rdpc[r] = "select"
  /\ \/ /\ rdQ # <<>>
        /\ rdQ' = Tail(rdQ)
        /\ rdOut' = rdOut \o SubSeq(Head(rdQ), 1, CopyN(rdP, Head(rdQ)))
        /\ rdBuf' = IF CopyN(rdP, Head(rdQ)) < Len(Head(rdQ))
                      THEN Rest(Head(rdQ), CopyN(rdP, Head(rdQ)))
                      ELSE rdBuf
        /\ rdRet' = <<CopyN(rdP, Head(rdQ)), "none">>
        /\ UNCHANGED rdErr
     \/ /\ rdErr
        /\ rdErr' = FALSE
        /\ rdRet' = <<0, "err">>
        /\ UNCHANGED <<rdQ, rdOut, rdBuf>>
     \/ /\ rdStop
        /\ rdRet' = <<0, "eof">>
        /\ UNCHANGED <<rdQ, rdOut, rdBuf, rdErr>>
  /\ rdpc' = [rdpc EXCEPT ![r] = "idle"]
  /\ UNCHANGED <<rdState, rdData, rdAfter, rdNext, rdQueued, rdStop, rdWg, rdOnce, rdP>>
  /\ UNCHANGED <<apiVars, swVars, smVars, hsVars, ftVars>>

\* Close, lines 152-159: closeOnce.Do; the first caller closes stopChan, a
\* caller during the first one's run blocks, a later caller returns at once
RdCloseCall(c) ==
  /\ rdpc[c] = "idle"
  /\ rdState # "new"
  /\ CASE rdOnce = "new"     -> /\ rdOnce' = "running"
                                /\ rdStop' = TRUE
                                /\ rdpc' = [rdpc EXCEPT ![c] = "wait"]
       [] rdOnce = "running" -> /\ rdpc' = [rdpc EXCEPT ![c] = "blocked"]
                                /\ UNCHANGED <<rdOnce, rdStop>>
       [] rdOnce = "done"    -> /\ rdpc' = [rdpc EXCEPT ![c] = "returned"]
                                /\ UNCHANGED <<rdOnce, rdStop>>
  /\ UNCHANGED <<rdState, rdData, rdAfter, rdNext, rdQueued, rdQ, rdErr, rdBuf,
                 rdWg, rdOut, rdP, rdRet>>
  /\ UNCHANGED <<apiVars, swVars, smVars, hsVars, ftVars>>

\* a Close that does not wait for the pump
RdNoWait == TRUE

\* a.wg.Wait() returns
RdWaited == rdWg = 0

\* Close, line 156: the first caller waits for the pump, then returns
RdCloseWait(c) ==
  /\ rdpc[c] = "wait"
  /\ RdWaited
  /\ rdOnce' = "done"
  /\ rdpc' = [rdpc EXCEPT ![c] = "returned"]
  /\ UNCHANGED <<rdState, rdData, rdAfter, rdNext, rdQueued, rdQ, rdErr, rdStop, rdBuf,
                 rdWg, rdOut, rdP, rdRet>>
  /\ UNCHANGED <<apiVars, swVars, smVars, hsVars, ftVars>>

\* Close: a caller blocked in closeOnce.Do returns when the first call is over
RdCloseUnblock(c) ==
  /\ rdpc[c] = "blocked"
  /\ rdOnce = "done"
  /\ rdpc' = [rdpc EXCEPT ![c] = "returned"]
  /\ UNCHANGED <<rdState, rdData, rdAfter, rdNext, rdQueued, rdQ, rdErr, rdStop, rdBuf,
                 rdWg, rdOnce, rdOut, rdP, rdRet>>
  /\ UNCHANGED <<apiVars, swVars, smVars, hsVars, ftVars>>

NextReader ==
  \/ RdStart
  \/ RdConnect
  \/ RdLoop
  \/ \E n \in 0..MaxReadLen, e \in {"none", "eof", "err"} : RdDeviceRead(n, e)
  \/ RdSend
  \/ \E r \in RConsumers, sz \in 1..MaxBuf : RdReadCall(r, sz)
  \/ \E r \in RConsumers : RdReadSelect(r)
  \/ \E c \in RClosers : RdCloseCall(c) \/ RdCloseWait(c) \/ RdCloseUnblock(c)

SpecReader == Init /\ [][NextReader]_vars

\* C15: for a started reader, Close has returned to no caller (the first, a
\* concurrent or a later one) before the pump streamLoop has exited, and once
\* Close has returned to some caller the pump reads the device connection no
\* more.
C15_CloseAfterPumpExit ==
  /\ [](\A c \in RClosers : rdpc[c] = "returned" => rdState = "exited" /\ rdWg = 0)
  /\ [][(\E c \in RClosers : rdpc[c] = "returned")
          => rdState # "read" /\ rdNext' = rdNext /\ rdState' = rdState]_vars

\* C15 witness: Close has returned to both callers of a reader whose pump had
\* read from the device.
C15_Witness ==
  /\ \A c \in RClosers : rdpc[c] = "returned"
  /\ rdNext > 0
  /\ rdState = "exited"

\* C16: the bytes returned by the Read calls so far, followed by the carry-over
\* buffer and the chunks still queued, are exactly the bytes of the queued
\* chunks in order; and no chunk is taken from the queue while the carry-over
\* buffer is non-empty.
C16_RoundTrip ==
  /\ [](rdOut \o rdBuf \o Flatten(rdQ) = Bytes(0, rdQueued))
  /\ [][rdBuf # <<>> => Len(rdQ') >= Len(rdQ)]_vars

\* C16 witness: a Read with a buffer smaller than the chunk has left a
\* remainder, bytes have been returned and the next chunk is queued.
C16_Witness ==
  /\ rdBuf # <<>>
  /\ rdOut # <<>>
  /\ rdQ # <<>>
  /\ rdpc["r1"] = "idle"

\* C17: when the pump has exited and the queue and the carry-over buffer are
\* empty, a Read call in its select can return (with EOF or the pump's error).
C17_ReadReturnsAfterPumpExit ==
  \A r \in RConsumers :
    (rdState = "exited" /\ rdQ = <<>> /\ rdBuf = <<>> /\ rdpc[r] = "select")
      => ENABLED RdReadSelect(r)

\* ---------------------------------------------------------------------------
\* AudioStreamWriter (src/internal/hikvision/stream_writer.go) with the contents
\* of the chunks and the time of each transmission
\* ---------------------------------------------------------------------------

\* the chunks of a sequence that are not empty
NonEmpty(q) == SelectSeq(q, LAMBDA d : d # <<>>)

\* a send loop that does not sleep
NoDuration(data) == 0

\* chunkDuration := time.Duration(len(data)) * time.Second / 8000, in units of
\* 1/8000 s
ChunkDuration(data) == Len(data)

\* a receive that leaves the chunk on the channel
SwKeep(q) == q

\* data := <-w.dataChan: what is left on the channel
SwTake(q) == Tail(q)

\* Start: go sendLoop()
SwStart ==
  /\ swState = "new"
  /\ swState' = "handshake"
  /\ UNCHANGED <<swQ, swErr, swStop, swAccepted, swTx, swClock, swWake, swFirst,
                 swLast, swP, swLate, swRet, swCalls, swpc>>
  /\ UNCHANGED <<apiVars, rdVars, smVars, hsVars, ftVars>>

\* a send loop that gives up the handshake without posting an error
SwHandshakeSilent ==
  /\ swState = "handshake"
  /\ swState' \in {"loop", "exited"}
  /\ UNCHANGED <<swQ, swErr, swStop, swAccepted, swTx, swClock, swWake, swFirst,
                 swLast, swP, swLate, swRet, swCalls, swpc>>
  /\ UNCHANGED <<apiVars, rdVars, smVars, hsVars, ftVars>>

\* sendLoop, lines 51-129: the PUT request is answered, or it fails or times
\* out and the error goes to errChan
SwHandshake ==
  /\ swState = "handshake"
  /\ \/ /\ swState' = "loop"
        /\ UNCHANGED swErr
     \/ /\ ~swErr
        /\ swErr' = TRUE
        /\ swState' = "exited"
  /\ UNCHANGED <<swQ, swStop, swAccepted, swTx, swClock, swWake, swFirst,
                 swLast, swP, swLate, swRet, swCalls, swpc>>
  /\ UNCHANGED <<apiVars, rdVars, smVars, hsVars, ftVars>>

\* sendLoop, lines 145-148: case <-w.stopChan
SwLoopStop ==
  /\ swState = "loop"
  /\ swStop
  /\ swState' = "exited"
  /\ UNCHANGED <<swQ, swErr, swStop, swAccepted, swTx, swClock, swWake, swFirst,
                 swLast, swP, swLate, swRet, swCalls, swpc>>
  /\ UNCHANGED <<apiVars, rdVars, smVars, hsVars, ftVars>>

\* sendLoop, lines 150-167: case data := <-w.dataChan; an empty chunk is
\* skipped, any other is written to the connection in one conn.Write, which
\* succeeds (and the loop sleeps) or fails (and the loop ends)
SwLoopTake ==
  /\ swState = "loop"
  /\ swQ # <<>>
  /\ swQ' = SwTake(swQ)
  /\ IF Head(swQ) = <<>>
       THEN UNCHANGED <<swState, swErr, swTx, swWake, swFirst, swLast>>
       ELSE \/ /\ swTx' = Append(swTx, Head(swQ))
               /\ swFirst' = IF swTx = <<>> THEN swClock ELSE swFirst
               /\ swLast' = swClock
               /\ swWake' = swClock + ChunkDuration(Head(swQ))
               /\ swState' = "sleep"
               /\ UNCHANGED swErr
            \/ /\ ~swErr
               /\ swErr' = TRUE
               /\ swState' = "exited"
               /\ UNCHANGED <<swTx, swWake, swFirst, swLast>>
  /\ UNCHANGED <<swStop, swAccepted, swClock, swP, swLate, swRet, swCalls, swpc>>
  /\ UNCHANGED <<apiVars, rdVars, smVars, hsVars, ftVars>>

\* sendLoop, line 167: time.Sleep(chunkDuration) returns
SwWakeUp ==
  /\ swState = "sleep"
  /\ swClock >= swWake
  /\ swState' = "loop"
  /\ UNCHANGED <<swQ, swErr, swStop, swAccepted, swTx, swClock, swWake, swFirst,
                 swLast, swP, swLate, swRet, swCalls, swpc>>
  /\ UNCHANGED <<apiVars, rdVars, smVars, hsVars, ftVars>>

\* time passes while the send loop runs
SwTick ==
  /\ swState \in {"loop", "sleep"}
  /\ swClock < MaxClock
  /\ swClock' = swClock + 1
  /\ UNCHANGED <<swState, swQ, swErr, swStop, swAccepted, swTx, swWake, swFirst,
                 swLast, swP, swLate, swRet, swCalls, swpc>>
  /\ UNCHANGED <<apiVars, rdVars, smVars, hsVars, ftVars>>

\* Write, lines 177-179: data is a copy of p; the bytes written are numbered in
\* the order of acceptance
SwWriteCall(u, n) ==
  /\ swpc[u] = "idle"
  /\ swCalls < MaxWrites
  /\ swCalls' = swCalls + 1
  /\ swP' = Bytes(Len(Flatten(swAccepted)), Len(Flatten(swAccepted)) + n)
  /\ swLate' = \E k \in SClosers : swpc[k] = "returned"
  /\ swpc' = [swpc EXCEPT ![u] = "select"]
  /\ UNCHANGED <<swState, swQ, swErr, swStop, swAccepted, swTx, swClock, swWake,
                 swFirst, swLast, swRet>>
  /\ UNCHANGED <<apiVars, rdVars, smVars, hsVars, ftVars>>

\* Write, lines 181-188: select { dataChan <- data | <-stopChan | <-errChan }
SwWriteSelect(u) ==
  /\ swpc[u] = "select"
  /\ \/ /\ Len(swQ) < SQueueCap
        /\ swQ' = Append(swQ, swP)
        /\ swAccepted' = Append(swAccepted, swP)
        /\ swRet' = <<Len(swP), "none">>
        /\ UNCHANGED swErr
     \/ /\ swStop
        /\ swRet' = <<0, "closed">>
        /\ UNCHANGED <<swQ, swAccepted, swErr>>
     \/ /\ swErr
        /\ swErr' = FALSE
        /\ swRet' = <<0, "err">>
        /\ UNCHANGED <<swQ, swAccepted>>
  /\ swpc' = [swpc EXCEPT ![u] = "idle"]
  /\ UNCHANGED <<swState, swStop, swTx, swClock, swWake, swFirst, swLast, swP,
                 swLate, swCalls>>
  /\ UNCHANGED <<apiVars, rdVars, smVars, hsVars, ftVars>>

\* Close, lines 192-197: closeOnce.Do(close(stopChan)); return nil
SwClose(k) ==
  /\ swpc[k] = "idle"
  /\ swStop' = TRUE
  /\ swpc' = [swpc EXCEPT ![k] = "returned"]
  /\ UNCHANGED <<swState, swQ, swErr, swAccepted, swTx, swClock, swWake, swFirst,
                 swLast, swP, swLate, swRet, swCalls>>
  /\ UNCHANGED <<apiVars, rdVars, smVars, hsVars, ftVars>>

NextWriter ==
  \/ SwStart
  \/ SwHandshake
  \/ SwLoopStop
  \/ SwLoopTake
  \/ SwWakeUp
  \/ SwTick
  \/ \E u \in SWriters, n \in 0..MaxChunk : SwWriteCall(u, n)
  \/ \E u \in SWriters : SwWriteSelect(u)
  \/ \E k \in SClosers : SwClose(k)

SpecWriter == Init /\ [][NextWriter]_vars

\* C18: a Write that started after Close had returned fails with the closed
\* error, returns 0 bytes and puts nothing on the queue.
C18_WriteAfterCloseFails ==
  [][\A u \in SWriters :
       (swpc[u] = "select" /\ swLate /\ swpc'[u] = "idle")
         => swRet' = <<0, "closed">> /\ swQ' = swQ]_vars

\* C19: the chunks written to the connection are, in order and each one whole,
\* the first non-empty chunks that Write accepted: nothing is reordered,
\* repeated or split, and a step writes at most one chunk.
C19_OrderPreserved ==
  /\ [](/\ Len(swTx) <= Len(NonEmpty(swAccepted))
        /\ swTx = SubSeq(NonEmpty(swAccepted), 1, Len(swTx)))
  /\ [][swTx' = swTx \/ (Len(swTx') = Len(swTx) + 1 /\ swState = "loop")]_vars

\* C19 witness: two non-empty chunks have been written to the connection and an
\* empty chunk was accepted as well.
C19_Witness ==
  /\ Len(swTx) = 2
  /\ Len(swAccepted) = 3

\* every accepted chunk that is not empty has been written to the connection
PayloadSent == swTx # <<>> /\ swTx = NonEmpty(swAccepted)

\* C20 as stated: once a payload of N bytes has been transmitted, the time
\* between the transmission of the first chunk and that of the last chunk is at
\* least N/8000 s.
C20_Pacing == PayloadSent => swLast - swFirst >= Len(Flatten(swTx))

\* C20 amended: the time between the first and the last transmission is at
\* least the playback time of all chunks but the last, and the sleep after the
\* last transmission ends no earlier than N/8000 s after the first one.
C20_PacingButLast ==
  swTx # <<>> =>
    /\ swLast - swFirst >= Len(Flatten(swTx)) - Len(swTx[Len(swTx)])
    /\ swWake - swFirst >= Len(Flatten(swTx))

\* C20 witness: a payload of three bytes in two chunks has been transmitted.
C20_Witness ==
  /\ PayloadSent
  /\ Len(swTx) = 2
  /\ Len(Flatten(swTx)) = 3

\* ---------------------------------------------------------------------------
\* HikvisionSessionManager (src/internal/session/hikvision.go) over the device
\* client and its retrying round tripper (src/unnamed/part_004)
\* ---------------------------------------------------------------------------

\* everything but the session manager's callers and the device
smFrame == <<regVars, pc, result, pfVars, wrVars, rtcVars, brVars>>

\* the requests of the client
Kinds == {"list", "open", "close"}

\* the device's <enabled> element
EnabledStr(b) == IF b THEN "true" ELSE "false"

\* the TwoWayAudioChannelList of a device that lists its first n channels; the
\* i-th entry has id i
Listing(chs, n) == [i \in 1..n |-> EnabledStr(chs[i])]

\* (mutation) every listed channel counts as available
IsListed(e) == TRUE

\* ch.Enabled == "false"
IsAvailable(e) == e = "false"

\* (mutation) the last available channel of the listing
LastAvailable(l) ==
  IF \E i \in 1..Len(l) : IsAvailable(l[i])
    THEN CHOOSE i \in 1..Len(l) :
           IsAvailable(l[i]) /\ \A j \in 1..Len(l) : IsAvailable(l[j]) => j <= i
    ELSE 0

\* AcquireChannel, lines 41-47: the id of the first listed channel that is
\* available (0: channelID stays "")
FirstAvailable(l) ==
  IF \E i \in 1..Len(l) : IsAvailable(l[i])
    THEN CHOOSE i \in 1..Len(l) :
           IsAvailable(l[i]) /\ \A j \in 1..Len(l) : IsAvailable(l[j]) => i <= j
    ELSE 0

\* (mutation) every 401 is retried
RetryAny401(o) == o \in {"401empty", "401chal"}

\* RoundTrip, lines 94-97: status 401 and an empty WWW-Authenticate header
ShouldRetry(o) == o = "401empty"

\* the error a client method makes of what RoundTrip returned: a transport
\* error is passed on, a status other than 200 and an unreadable body become
\* errors of the client (CloseAudioChannel does not read the body)
ClientErr(kind, o) ==
  CASE o = "neterr" -> "neterr"
    [] o = "200"    -> "none"
    [] o = "200bad" -> IF kind = "close" THEN "none" ELSE "badbody"
    [] OTHER        -> "status" \o o

\* a request starts: nothing attempted yet
RTReset(m) ==
  /\ rtN' = [rtN EXCEPT ![m] = 0]
  /\ rtFirst' = [rtFirst EXCEPT ![m] = "none"]
  /\ rtLast' = [rtLast EXCEPT ![m] = "none"]
  /\ rtBody' = [rtBody EXCEPT ![m] = <<>>]
  /\ rtResp' = [rtResp EXCEPT ![m] = "none"]

\* AcquireChannel is called
SmAcquire(m) ==
  /\ smpc[m] \in {"idle", "failed"}
  /\ smpc' = [smpc EXCEPT ![m] = "list"]
  /\ smListing' = [smListing EXCEPT ![m] = <<>>]
  /\ smChosen' = [smChosen EXCEPT ![m] = 0]
  /\ smSess' = [smSess EXCEPT ![m] = <<0, "">>]
  /\ smErr' = [smErr EXCEPT ![m] = "none"]
  /\ smOpens' = [smOpens EXCEPT ![m] = 0]
  /\ smOpened' = [smOpened EXCEPT ![m] = {}]
  /\ RTReset(m)
  /\ UNCHANGED <<devVars, dvSid>>
  /\ UNCHANGED smFrame

\* one call of transport.RoundTrip for the request of m, answered with o: the
\* device lists its channels, opens the channel (it refuses one that is
\* enabled) or closes it when it answers 200
DevAnswer(m, o) ==
  /\ rtLast' = [rtLast EXCEPT ![m] = o]
  /\ CASE smpc[m] = "list" ->
            /\ \E n \in 0..NumChannels :
                 rtBody' = [rtBody EXCEPT ![m] =
                              IF o = "200" THEN Listing(channels, n) ELSE <<>>]
            /\ UNCHANGED <<devVars, dvSid, smOpens, smOpened>>
       [] smpc[m] = "open" ->
            /\ smOpens' = [smOpens EXCEPT ![m] = @ + 1]
            /\ IF o \in {"200", "200bad"}
                 THEN /\ ~channels[smChosen[m]]
                      /\ channels' = [channels EXCEPT ![smChosen[m]] = TRUE]
                      /\ openedBy' = [openedBy EXCEPT ![smChosen[m]] = m]
                      /\ smOpened' = [smOpened EXCEPT ![m] = @ \cup {smChosen[m]}]
                      /\ \E sid \in {IssuedId[m]} :
                           /\ dvSid' = [dvSid EXCEPT ![smChosen[m]] = sid]
                           /\ rtBody' = [rtBody EXCEPT ![m] =
                                           IF o = "200" THEN <<sid>> ELSE <<>>]
                 ELSE /\ rtBody' = [rtBody EXCEPT ![m] = <<>>]
                      /\ UNCHANGED <<devVars, dvSid, smOpened>>
       [] smpc[m] = "close" ->
            /\ rtBody' = [rtBody EXCEPT ![m] = <<>>]
            /\ IF o \in {"200", "200bad"}
                 THEN /\ channels' = [channels EXCEPT ![smChosen[m]] = FALSE]
                      /\ openedBy' = [openedBy EXCEPT ![smChosen[m]] = None]
                      /\ dvSid' = [dvSid EXCEPT ![smChosen[m]] = ""]
                 ELSE UNCHANGED <<devVars, dvSid>>
            /\ UNCHANGED <<smOpens, smOpened>>

\* RoundTrip, line 86: resp, err := l.transport.RoundTrip(req)
RTFirst(m, o) ==
  /\ smpc[m] \in Kinds
  /\ rtN[m] = 0
  /\ rtN' = [rtN EXCEPT ![m] = 1]
  /\ rtFirst' = [rtFirst EXCEPT ![m] = o]
  /\ DevAnswer(m, o)
  /\ UNCHANGED <<smpc, smListing, smChosen, smSess, smErr, rtResp>>
  /\ UNCHANGED smFrame

\* RoundTrip, lines 97-102: the request is cloned and sent once more
RTRetry(m, o) ==
  /\ smpc[m] \in Kinds
  /\ rtN[m] = 1
  /\ ShouldRetry(rtFirst[m])
  /\ rtN' = [rtN EXCEPT ![m] = 2]
  /\ DevAnswer(m, o)
  /\ UNCHANGED <<smpc, smListing, smChosen, smSess, smErr, rtFirst, rtResp>>
  /\ UNCHANGED smFrame

\* RoundTrip returns: the first answer (lines 90, 106) or the answer to the
\* retry (line 102)
RTReturn(m) ==
  /\ smpc[m] \in Kinds
  /\ \/ rtN[m] = 1 /\ ~ShouldRetry(rtFirst[m])
     \/ rtN[m] = 2
  /\ rtResp' = [rtResp EXCEPT ![m] = rtLast[m]]
  /\ smpc' = [smpc EXCEPT ![m] = smpc[m] \o "_resp"]
  /\ UNCHANGED <<smListing, smChosen, smSess, smErr, smOpens, smOpened,
                 rtN, rtFirst, rtLast, rtBody, dvSid, devVars>>
  /\ UNCHANGED smFrame

\* AcquireChannel, lines 26-54: GetTwoWayAudioChannels has returned; an error
\* is returned as it is, an empty listing or one without an available channel
\* gives ErrNoAvailableChannels, otherwise the channel is selected
SmListDone(m) ==
  /\ smpc[m] = "list_resp"
  /\ IF ClientErr("list", rtResp[m]) # "none"
       THEN /\ smErr' = [smErr EXCEPT ![m] = ClientErr("list", rtResp[m])]
            /\ smpc' = [smpc EXCEPT ![m] = "failed"]
            /\ UNCHANGED <<smListing, smChosen>>
       ELSE IF FirstAvailable(rtBody[m]) = 0
              THEN /\ smErr' = [smErr EXCEPT ![m] = "nochannels"]
                   /\ smpc' = [smpc EXCEPT ![m] = "failed"]
                   /\ UNCHANGED <<smListing, smChosen>>
              ELSE /\ smListing' = [smListing EXCEPT ![m] = rtBody[m]]
                   /\ smChosen' = [smChosen EXCEPT ![m] = FirstAvailable(rtBody[m])]
                   /\ smpc' = [smpc EXCEPT ![m] = "open"]
                   /\ UNCHANGED smErr
  /\ RTReset(m)
  /\ UNCHANGED <<smSess, smOpens, smOpened, dvSid, devVars>>
  /\ UNCHANGED smFrame

\* AcquireChannel, lines 57-74: OpenAudioChannel has returned; an error is
\* returned as it is, otherwise the session; the locals of the call are gone
SmOpenDone(m) ==
  /\ smpc[m] = "open_resp"
  /\ IF ClientErr("open", rtResp[m]) # "none"
       THEN /\ smErr' = [smErr EXCEPT ![m] = ClientErr("open", rtResp[m])]
            /\ smpc' = [smpc EXCEPT ![m] = "failed"]
            /\ smChosen' = [smChosen EXCEPT ![m] = 0]
            /\ UNCHANGED <<smSess, smOpens, smOpened>>
       ELSE /\ smSess' = [smSess EXCEPT ![m] = <<smChosen[m], rtBody[m][1]>>]
            /\ smpc' = [smpc EXCEPT ![m] = "held"]
            /\ smOpens' = [smOpens EXCEPT ![m] = 0]
            /\ smOpened' = [smOpened EXCEPT ![m] = {}]
            /\ UNCHANGED <<smErr, smChosen>>
  /\ smListing' = [smListing EXCEPT ![m] = <<>>]
  /\ RTReset(m)
  /\ UNCHANGED <<dvSid, devVars>>
  /\ UNCHANGED smFrame

\* ReleaseChannel(session.ChannelID) is called
SmRelease(m) ==
  /\ smpc[m] = "held"
  /\ smpc' = [smpc EXCEPT ![m] = "close"]
  /\ UNCHANGED <<smListing, smChosen, smSess, smErr, smOpens, smOpened,
                 rtN, rtFirst, rtLast, rtBody, rtResp, dvSid, devVars>>
  /\ UNCHANGED smFrame

\* ReleaseChannel, lines 79-92: CloseAudioChannel has returned; the caller
\* drops the session
SmCloseDone(m) ==
  /\ smpc[m] = "close_resp"
  /\ smErr' = [smErr EXCEPT ![m] = ClientErr("close", rtResp[m])]
  /\ smpc' = [smpc EXCEPT ![m] = "idle"]
  /\ smSess' = [smSess EXCEPT ![m] = <<0, "">>]
  /\ smChosen' = [smChosen EXCEPT ![m] = 0]
  /\ RTReset(m)
  /\ UNCHANGED <<smListing, smOpens, smOpened, dvSid, devVars>>
  /\ UNCHANGED smFrame

NextSession ==
  \E m \in SmCallers :
    \/ SmAcquire(m)
    \/ \E o \in Outcomes : RTFirst(m, o)
    \/ \E o \in Outcomes : RTRetry(m, o)
    \/ RTReturn(m)
    \/ SmListDone(m)
    \/ SmOpenDone(m)
    \/ SmRelease(m)
    \/ SmCloseDone(m)

SpecSession == Init /\ [][NextSession]_vars

\* C21: a request is attempted at most twice; a second attempt is made only
\* after a first answer of 401 with an empty challenge and is the same request;
\* RoundTrip returns the answer of the last attempt, after exactly one retry
\* when the first answer was such a 401 and after no retry otherwise.
C21_RetryOnce ==
  /\ [](\A m \in SmCallers : rtN[m] <= 2)
  /\ [][\A m \in SmCallers :
          /\ (rtN[m] = 1 /\ rtN'[m] = 2)
               => /\ rtFirst[m] = "401empty"
                  /\ smpc'[m] = smpc[m]
                  /\ smChosen'[m] = smChosen[m]
          /\ (rtResp[m] = "none" /\ rtResp'[m] # "none")
               => /\ rtResp'[m] = rtLast[m]
                  /\ rtN[m] = IF rtFirst[m] = "401empty" THEN 2 ELSE 1]_vars

\* C21 witness: the channel listing was answered with 401 and an empty
\* challenge, retried, and the retry's 200 has been returned to the client.
C21_Witness ==
  \E m \in SmCallers :
    /\ smpc[m] = "list_resp"
    /\ rtFirst[m] = "401empty"
    /\ rtN[m] = 2
    /\ rtResp[m] = "200"

\* C22: when AcquireChannel returns a session, its ChannelID is the first entry
\* of the listing the call received whose enabled element is "false", its
\* SessionID is the one the device issued for that channel, and the call has
\* made the device open that channel and no other; every open request of the
\* call is for a channel listed available with no available channel before it.
C22_FirstAvailableOpened ==
  [][\A m \in SmCallers :
       /\ (smpc[m] = "open_resp" /\ smpc'[m] = "held")
            => /\ smSess'[m][1] \in 1..Len(smListing[m])
               /\ smListing[m][smSess'[m][1]] = "false"
               /\ \A j \in 1..(smSess'[m][1] - 1) : smListing[m][j] # "false"
               /\ smSess'[m][2] = dvSid[smSess'[m][1]]
               /\ smOpened[m] = {smSess'[m][1]}
       /\ smOpens'[m] > smOpens[m]
            => /\ smChosen[m] \in 1..Len(smListing[m])
               /\ smListing[m][smChosen[m]] = "false"
               /\ \A j \in 1..(smChosen[m] - 1) : smListing[m][j] # "false"
               /\ smOpened'[m] \subseteq {smChosen[m]}]_vars

\* C22 witness: with the first channel enabled, AcquireChannel has returned a
\* session on the second channel carrying the device's session id.
C22_Witness ==
  \E m \in SmCallers :
    /\ smpc[m] = "held"
    /\ channels[1]
    /\ openedBy[1] # m
    /\ smSess[m] = <<2, dvSid[2]>>
    /\ dvSid[2] # ""

\* C23: when the listing AcquireChannel received is empty or has every channel
\* enabled, the call returns ErrNoAvailableChannels, has sent no open request
\* and leaves the device's channels as they are.
C23_NoAvailableChannels ==
  [][\A m \in SmCallers :
       (/\ smpc[m] = "list_resp"
        /\ smpc'[m] # "list_resp"
        /\ rtResp[m] = "200"
        /\ \A i \in 1..Len(rtBody[m]) : rtBody[m][i] = "true")
         => /\ smpc'[m] = "failed"
            /\ smErr'[m] = "nochannels"
            /\ smOpens'[m] = 0
            /\ smSess'[m] = <<0, "">>
            /\ UNCHANGED devVars]_vars

\* C23 witness: one caller holds the session on channel 1, the other channel is
\* free, and the second caller's AcquireChannel, whose listing showed channel 1
\* only, has failed with ErrNoAvailableChannels.
C23_Witness ==
  /\ smpc["m1"] = "held"
  /\ smSess["m1"][1] = 1
  /\ channels[1]
  /\ ~channels[2]
  /\ smpc["m2"] = "failed"
  /\ smErr["m2"] = "nochannels"

\* C24: after AcquireChannel has returned an error, the caller has no session
\* and no channel that the device opened during the call is still open for it.
C24_FailedAcquireHoldsNothing ==
  \A m \in SmCallers :
    smpc[m] = "failed"
      => /\ smErr[m] # "none"
         /\ smSess[m] = <<0, "">>
         /\ \A c \in smOpened[m] : ~(channels[c] /\ openedBy[c] = m)

\* ---------------------------------------------------------------------------
\* HandlePlayFile's chunk loop with the test of the context and the call of
\* writer.Write as separate steps (src/README.md lines 341-359)
\* ---------------------------------------------------------------------------

\* the chunk loop: select { case <-ctx.Done(): ...; default: ... } takes the
\* default branch
PFLoopDefault(p) ==
  /\ pc[p] = "send"
  /\ ~cancelled[p]
  /\ pc' = [pc EXCEPT ![p] = "write"]
  /\ UNCHANGED <<regVars, result, devVars, pfVars, wrVars, rtcVars, brVars, smVars>>

\* writer.Write(chunk): case w.dataChan <- data, which waits for space in the
\* queue and watches neither the context nor anything of the handler
PFWriteEnqueue(p) ==
  /\ pc[p] = "write"
  /\ wq[p] < QueueCap
  /\ wq' = [wq EXCEPT ![p] = @ + 1]
  /\ sent' = [sent EXCEPT ![p] = @ + 1]
  /\ pc' = [pc EXCEPT ![p] = IF sent[p] + 1 = LongChunks THEN "wait" ELSE "send"]
  /\ UNCHANGED <<regVars, result, devVars, chosen, session, wstate, wstop, werr, wconn, wtx, rtcVars, brVars, smVars>>

\* writer.Write(chunk): case err := <-w.errChan; the handler reports 500
PFWriteFail(p) ==
  /\ pc[p] = "write"
  /\ werr[p]
  /\ werr' = [werr EXCEPT ![p] = FALSE]
  /\ pc' = [pc EXCEPT ![p] = "d_wclose"]
  /\ result' = [result EXCEPT ![p] = "error"]
  /\ UNCHANGED <<regVars, devVars, pfVars, wstate, wstop, wq, wconn, wtx, rtcVars, brVars, smVars>>

\* one file playback of LongChunks chunks, its writer's send loop, and a
\* WebRTC operation that pre-empts it
NextCancel ==
  \/ PFCheck("p1") \/ PFRegister("p1") \/ PFParse("p1")
  \/ PFAcquireList("p1") \/ PFAcquireOpen("p1")
  \/ PFInterruptedInLoop("p1") \/ PFLoopDefault("p1")
  \/ PFWriteEnqueue("p1") \/ PFWriteFail("p1")
  \/ PFWait("p1") \/ PFWriterClose("p1") \/ PFRelease("p1")
  \/ PFUnregister("p1") \/ PFDone("p1") \/ PFCancel("p1")
  \/ WHandshake("p1") \/ WLoopStop("p1") \/ WLoopSend("p1")
  \/ OfferStep("w1")

SpecCancel == Init /\ [][NextCancel]_vars

\* C25: once the cancellation token of a PlayFile operation has been invoked,
\* the operation puts no further chunk on the writer's queue.
C25_NoEnqueueAfterCancel ==
  [][\A p \in PlayFiles : cancelled[p] => sent'[p] = sent[p]]_vars

\* C26: when a PlayFile request reports success, the send loop of its writer
\* has written every chunk of the payload to the device connection.
C26_SuccessAfterTransmission ==
  \A p \in PlayFiles : result[p] = "ok" => wtx[p] = NumChunks

\* C27: the cancellation token of a PlayFile operation has been invoked when
\* its teardown begins: when its writer is closed and when the release of its
\* channel is issued.
C27_CancelBeforeTeardown ==
  [][\A p \in PlayFiles :
       (\/ ~wstop[p] /\ wstop'[p]
        \/ pc[p] = "d_release" /\ pc'[p] # "d_release")
         => cancelled[p]]_vars

\* The writer under the scheduling the runtime gives it: time.After(5 s) fires,
\* so the select of the handshake always completes, and a Write whose select
\* has a ready case is run.
SpecWriterFair ==
  /\ SpecWriter
  /\ WF_vars(SwHandshake)
  /\ \A u \in SWriters : WF_vars(SwWriteSelect(u))

RegisterReturns(o) ==
  \/ o \in PlayFiles /\ pc[o] = "admitted" /\ pc'[o] = "parse"
  \/ o \in Offers /\ pc[o] = "idle" /\ pc'[o] = "w_abort"

\* the step in which operation o returns from Unregister
UnregisterReturns(o) ==
  \/ o \in PlayFiles /\ pc[o] = "d_unreg" /\ pc'[o] = "d_done"
  \/ o \in Offers /\ pc[o] = "w_unreg" /\ pc'[o] = "done"

\* the indices at which operation o is tracked
TrackedAt(o) == {i \in 1..Len(activeOps) : activeOps[i] = o}

ReaderEnd(o) ==
  /\ rpc[ReaderOf[o]] = "reading"
  /\ rpc' = [rpc EXCEPT ![ReaderOf[o]] = "done"]
  /\ UNCHANGED <<hmu, peerConnection, audioWriter, audioReader, activeSession, pcState,
                 pcCloses, chanCloses, rresult, rchosen, clog, gwVars, devVars>>

\* One WebRTC session with its two forwarding tasks, the state callback of its
\* peer connection and the cleanups they invoke.
NextTasks ==
  \/ HandleOfferStep("o1")
  \/ OnTrackStep("o1")
  \/ ReaderEnd("o1")
  \/ StateChange("o1")
  \/ CleanupStep(TrackOf["o1"])
  \/ CleanupStep(StateOf["o1"])

SpecTasks == Init /\ [][NextTasks]_vars

\* cleanup has been invoked by the RTP task, by the state callback or by Close
CleanupInvoked ==
  \E k \in Invokers : rpc[k] \notin {"idle", "ot_list", "ot_open", "rtp"}

\* C29: when the device-to-client task of a session has ended, the cleanup of
\* the session has been invoked.
C29_ReaderEndCleansUp ==
  \A o \in DOMAIN ReaderOf : rpc[ReaderOf[o]] = "done" => CleanupInvoked

\* C31: when ReleaseChannel fails in the cleanup of a play-file request (the
\* request's channel is still open for it when the release step ends), the
\* request is not reported as having succeeded.
C31_ReleaseErrorSurfaced ==
  [][\A p \in PlayFiles :
       (/\ pc[p] = "d_release"
        /\ pc'[p] = "d_unreg"
        /\ channels'[session[p]]
        /\ openedBy'[session[p]] = p)
         => result'[p] # "ok"]_vars

\* C32: in the cleanup of a play-file request that had acquired a channel the
\* channel is released after the writer is closed, the completion signal fires
\* after the release, and the operation is unregistered only after the
\* completion signal has fired.
C32_CleanupOrderOfPlayFile ==
  [][\A p \in PlayFiles :
       /\ (pc[p] = "d_release" /\ pc'[p] # "d_release") => wstop[p]
       /\ (doneCount'[p] > doneCount[p] /\ session[p] # 0)
            => pc[p] \notin {"d_wclose", "d_release"}
       /\ (pc[p] = "d_unreg" /\ pc'[p] # "d_unreg" /\ session[p] # 0)
            => doneCount[p] > 0]_vars

\* the play-file operations the registry tracks
TrackedPlayFiles == {activeOps[i] : i \in {j \in 1..Len(activeOps) : IsPlayFile(activeOps[j])}}

\* C33: the registry never tracks two play-file operations at the same time.
C33_OnePlayFileTracked == Cardinality(TrackedPlayFiles) <= 1

\* C34: a Read that returns an error or EOF leaves no undelivered byte behind:
\* when it returns, the queue and the carry-over buffer are empty.
C34_NoErrorBeforeData ==
  [][\A r \in RConsumers :
       (/\ rdpc[r] = "select"
        /\ rdpc'[r] = "idle"
        /\ rdRet'[2] \in {"err", "eof"})
         => rdQ = <<>> /\ rdBuf = <<>>]_vars

\* C36: once Close has returned to a caller, the send loop writes nothing more
\* to the device connection.
C36_NoWriteAfterClose ==
  [][(\E k \in SClosers : swpc[k] = "returned") => swTx' = swTx]_vars

\* a play-file request holds an open AudioSession: AcquireChannel has returned
\* it and the deferred ReleaseChannel has not returned yet
HoldsSession(p) == pc[p] \in {"send", "write", "wait", "d_wclose", "d_release"}

\* C37: an operation that holds an open AudioSession is tracked by the
\* registry, and HasActiveOperation reports true.
C37_HolderIsTracked ==
  \A p \in PlayFiles :
    HoldsSession(p) => p \in Range(activeOps) /\ HasActiveOperation

\* C39: the channel sweep of AbortAll closes no channel that a running
\* operation holds.
C39_SweepSparesRunning ==
  [][\A a \in Aborters, c \in Chans :
       (/\ pc[a] = "aa_release"
        /\ sweep'[a] # sweep[a]
        /\ channels[c]
        /\ ~channels'[c])
         => ~(\E p \in PlayFiles : openedBy[c] = p /\ HoldsSession(p))]_vars

\* The reader under the scheduling the runtime gives it: the pump runs its
\* selects when a case is ready, and a Close whose wait is over returns.  The
\* device owes nothing: it may leave the GET unanswered and the connection
\* silent, so the request and the read of the connection are not scheduled.
SpecReaderFair ==
  /\ SpecReader
  /\ WF_vars(RdLoop)
  /\ WF_vars(RdSend)
  /\ \A c \in RClosers : WF_vars(RdCloseWait(c)) /\ WF_vars(RdCloseUnblock(c))

\* C38: every call of Close returns: a caller waiting for the pump, or blocked
\* behind the first caller, eventually has its call returned.
C38_CloseReturns ==
  \A c \in RClosers : (rdpc[c] \in {"wait", "blocked"}) ~> (rdpc[c] = "returned")

\* ---------------------------------------------------------------------------
\* The device-to-client task of a WebRTC session (webrtc.go, lines 196-227)
\* over the AudioStreamReader it drains
\* ---------------------------------------------------------------------------

\* a task that sends whatever io.ReadFull has read so far
FrameAny(buf) == Len(buf) > 0

\* io.ReadFull: the loop ends without error when n >= len(buffer)
FrameFull(buf) == Len(buf) >= FrameSize

\* io.ReadFull calls reader.Read(buffer[n:]); Read, lines 124-133: with a
\* non-empty a.buffer the call returns from it, otherwise it goes on to the
\* select
FtRead ==
  /\ ftpc = "readfull"
  /\ rdState # "new"
  /\ ~FrameFull(ftBuf)
  /\ IF rdBuf # <<>>
       THEN /\ ftBuf' = ftBuf \o SubSeq(rdBuf, 1, CopyN(FrameSize - Len(ftBuf), rdBuf))
            /\ rdOut' = rdOut \o SubSeq(rdBuf, 1, CopyN(FrameSize - Len(ftBuf), rdBuf))
            /\ rdBuf' = Rest(rdBuf, CopyN(FrameSize - Len(ftBuf), rdBuf))
            /\ rdRet' = <<CopyN(FrameSize - Len(ftBuf), rdBuf), "none">>
            /\ UNCHANGED <<rdP, ftpc>>
       ELSE /\ rdP' = FrameSize - Len(ftBuf)
            /\ ftpc' = "select"
            /\ UNCHANGED <<rdOut, rdBuf, rdRet, ftBuf>>
  /\ UNCHANGED <<rdState, rdData, rdAfter, rdNext, rdQueued, rdQ, rdErr, rdStop,
                 rdWg, rdOnce, rdpc, ftOut>>
  /\ UNCHANGED <<apiVars, swVars, smVars, hsVars>>

\* Read, lines 135-148: select { <-dataChan | <-errChan | <-stopChan }; with an
\* error io.ReadFull returns it (n < len(buffer)) and the task returns
FtReadSelect ==
  /\ ftpc = "select"
  /\ \/ /\ rdQ # <<>>
        /\ rdQ' = Tail(rdQ)
        /\ rdOut' = rdOut \o SubSeq(Head(rdQ), 1, CopyN(rdP, Head(rdQ)))
        /\ ftBuf' = ftBuf \o SubSeq(Head(rdQ), 1, CopyN(rdP, Head(rdQ)))
        /\ rdBuf' = IF CopyN(rdP, Head(rdQ)) < Len(Head(rdQ))
                      THEN Rest(Head(rdQ), CopyN(rdP, Head(rdQ)))
                      ELSE rdBuf
        /\ rdRet' = <<CopyN(rdP, Head(rdQ)), "none">>
        /\ ftpc' = "readfull"
        /\ UNCHANGED rdErr
     \/ /\ rdErr
        /\ rdErr' = FALSE
        /\ rdRet' = <<0, "err">>
        /\ ftpc' = "done"
        /\ UNCHANGED <<rdQ, rdOut, rdBuf, ftBuf>>
     \/ /\ rdStop
        /\ rdRet' = <<0, "eof">>
        /\ ftpc' = "done"
        /\ UNCHANGED <<rdQ, rdOut, rdBuf, rdErr, ftBuf>>
  /\ UNCHANGED <<rdState, rdData, rdAfter, rdNext, rdQueued, rdStop, rdWg, rdOnce,
                 rdP, rdpc, ftOut>>
  /\ UNCHANGED <<apiVars, swVars, smVars, hsVars>>

\* io.ReadFull has returned n = len(buffer): track.WriteSample(buffer[:n])
\* succeeds and the task reads the next frame, or fails and the task returns
FtWriteSample ==
  /\ ftpc = "readfull"
  /\ FrameFull(ftBuf)
  /\ \/ /\ ftOut' = Append(ftOut, ftBuf)
        /\ ftBuf' = <<>>
        /\ UNCHANGED ftpc
     \/ /\ ftpc' = "done"
        /\ UNCHANGED <<ftOut, ftBuf>>
  /\ UNCHANGED <<rdVars, apiVars, swVars, smVars, hsVars>>

\* A reader, its pump, the device-to-client task that drains it and the Close
\* of the session's cleanup.
NextFrames ==
  \/ RdStart
  \/ RdConnect
  \/ RdLoop
  \/ \E n \in 0..MaxReadLen, e \in {"none", "eof", "err"} : RdDeviceRead(n, e)
  \/ RdSend
  \/ FtRead
  \/ FtReadSelect
  \/ FtWriteSample
  \/ RdCloseCall("c1")
  \/ RdCloseWait("c1")

SpecFrames == Init /\ [][NextFrames]_vars

\* C35: every sample written to the track has FrameSize bytes; the samples are,
\* in order, the first bytes of the stream the pump queued; a sample is written
\* only from a full buffer; and once the task has returned nothing more is
\* written, whatever is left in its buffer.
C35_FramesExact ==
  /\ [](/\ \A i \in 1..Len(ftOut) : Len(ftOut[i]) = FrameSize
        /\ FrameSize * Len(ftOut) <= rdQueued
        /\ Flatten(ftOut) = Bytes(0, FrameSize * Len(ftOut))
        /\ Flatten(ftOut) \o ftBuf = rdOut)
  /\ [][ftOut' # ftOut
          => Len(ftBuf) = FrameSize /\ ftOut' = Append(ftOut, ftBuf)]_vars
  /\ [][ftpc = "done" => ftOut' = ftOut /\ ftpc' = "done"]_vars

\* C35 witness: two frames have been written to the track, the stream ended
\* with a partial frame in the task's buffer, and the task has returned.
C35_Witness ==
  /\ Len(ftOut) = 2
  /\ ftBuf # <<>>
  /\ Len(ftBuf) < FrameSize
  /\ ftpc = "done"
  /\ rdState = "exited"
  /\ rdQ = <<>>

\* ---------------------------------------------------------------------------
\* AudioStreamWriter.sendLoop with the request of its handshake
\* (stream_writer.go, lines 51-141): the goroutine that runs client.Do, the
\* connection its dial assigns to conn, and the body of the response
\* ---------------------------------------------------------------------------

\* Start: go sendLoop(), which starts the goroutine that runs client.Do(req)
HsStart ==
  /\ swState = "new"
  /\ swState' = "handshake"
  /\ hsReq' = "running"
  /\ UNCHANGED <<swQ, swErr, swStop, swAccepted, swTx, swClock, swWake, swFirst,
                 swLast, swP, swLate, swRet, swCalls, swpc>>
  /\ UNCHANGED <<hsConn, hsBody, hsRespChan, hsErrChan>>
  /\ UNCHANGED <<apiVars, rdVars, smVars, ftVars>>

\* DialContext, lines 56-63: net.Dial succeeds and conn = c, or it fails and
\* client.Do returns the error (line 93)
HsDial ==
  /\ hsReq = "running"
  /\ hsConn = "nil"
  /\ \/ /\ hsConn' = "open"
        /\ UNCHANGED <<hsReq, hsErrChan>>
     \/ /\ hsReq' = "done"
        /\ hsErrChan' = TRUE
        /\ UNCHANGED hsConn
  /\ UNCHANGED <<hsBody, hsRespChan>>
  /\ UNCHANGED <<apiVars, rdVars, swVars, smVars, ftVars>>

\* lines 91-107: client.Do returns a 200 response, which goes to respChan with
\* its body left open; or another status, whose body is read and closed; or an
\* error of the transport, which closes the connection
HsAnswer(o) ==
  /\ hsReq = "running"
  /\ hsConn = "open"
  /\ hsReq' = "done"
  /\ CASE o = "200"    -> /\ hsBody' = "open"
                          /\ hsRespChan' = TRUE
                          /\ UNCHANGED <<hsConn, hsErrChan>>
       [] o = "status" -> /\ hsConn' = "idle"
                          /\ hsErrChan' = TRUE
                          /\ UNCHANGED <<hsBody, hsRespChan>>
       [] o = "neterr" -> /\ hsConn' = "closed"
                          /\ hsErrChan' = TRUE
                          /\ UNCHANGED <<hsBody, hsRespChan>>
  /\ UNCHANGED <<apiVars, rdVars, swVars, smVars, ftVars>>

\* lines 112-141: select { <-respChan | <-errChan | <-time.After(5 s) }; with
\* the response and a connection the cleanup is deferred and the loop begins,
\* otherwise the error goes to w.errChan and sendLoop returns
HsSelect ==
  /\ swState = "handshake"
  /\ \/ /\ hsRespChan
        /\ hsRespChan' = FALSE
        /\ IF hsConn = "nil"
             THEN /\ ~swErr
                  /\ swErr' = TRUE
                  /\ swState' = "exited"
             ELSE /\ swState' = "loop"
                  /\ UNCHANGED swErr
        /\ UNCHANGED hsErrChan
     \/ /\ hsErrChan
        /\ hsErrChan' = FALSE
        /\ ~swErr
        /\ swErr' = TRUE
        /\ swState' = "exited"
        /\ UNCHANGED hsRespChan
     \/ /\ ~swErr
        /\ swErr' = TRUE
        /\ swState' = "exited"
        /\ UNCHANGED <<hsRespChan, hsErrChan>>
  /\ UNCHANGED <<swQ, swStop, swAccepted, swTx, swClock, swWake, swFirst,
                 swLast, swP, swLate, swRet, swCalls, swpc>>
  /\ UNCHANGED <<hsReq, hsConn, hsBody>>
  /\ UNCHANGED <<apiVars, rdVars, smVars, ftVars>>

\* lines 145-148 with the deferred cleanup of lines 133-140: case <-w.stopChan;
\* the response body and the connection are closed
HsLoopStop ==
  /\ swState = "loop"
  /\ swStop
  /\ swState' = "exited"
  /\ hsBody' = "closed"
  /\ hsConn' = "closed"
  /\ UNCHANGED <<swQ, swErr, swStop, swAccepted, swTx, swClock, swWake, swFirst,
                 swLast, swP, swLate, swRet, swCalls, swpc>>
  /\ UNCHANGED <<hsReq, hsRespChan, hsErrChan>>
  /\ UNCHANGED <<apiVars, rdVars, smVars, ftVars>>

\* lines 150-167 with the deferred cleanup of lines 133-140: case data :=
\* <-w.dataChan; a failed conn.Write ends the loop, and the response body and
\* the connection are closed
HsLoopTake ==
  /\ swState = "loop"
  /\ swQ # <<>>
  /\ swQ' = SwTake(swQ)
  /\ IF Head(swQ) = <<>>
       THEN UNCHANGED <<swState, swErr, swTx, swWake, swFirst, swLast, hsBody, hsConn>>
       ELSE \/ /\ swTx' = Append(swTx, Head(swQ))
               /\ swFirst' = IF swTx = <<>> THEN swClock ELSE swFirst
               /\ swLast' = swClock
               /\ swWake' = swClock + ChunkDuration(Head(swQ))
               /\ swState' = "sleep"
               /\ UNCHANGED <<swErr, hsBody, hsConn>>
            \/ /\ ~swErr
               /\ swErr' = TRUE
               /\ swState' = "exited"
               /\ hsBody' = "closed"
               /\ hsConn' = "closed"
               /\ UNCHANGED <<swTx, swWake, swFirst, swLast>>
  /\ UNCHANGED <<swStop, swAccepted, swClock, swP, swLate, swRet, swCalls, swpc>>
  /\ UNCHANGED <<hsReq, hsRespChan, hsErrChan>>
  /\ UNCHANGED <<apiVars, rdVars, smVars, ftVars>>

\* The writer with the request of its handshake, its callers' Write and Close.
NextConn ==
  \/ HsStart
  \/ HsDial
  \/ \E o \in {"200", "status", "neterr"} : HsAnswer(o)
  \/ HsSelect
  \/ HsLoopStop
  \/ HsLoopTake
  \/ SwWakeUp
  \/ SwTick
  \/ \E u \in SWriters, n \in 0..MaxChunk : SwWriteCall(u, n)
  \/ \E u \in SWriters : SwWriteSelect(u)
  \/ \E k \in SClosers : SwClose(k)

SpecConn == Init /\ [][NextConn]_vars

\* C40: once the send loop has exited and the request of its handshake is
\* over, the writer holds no open connection and no open response body.
C40_NoConnectionAfterExit ==
  (swState = "exited" /\ hsReq = "done")
    => hsConn # "open" /\ hsBody # "open"

====
